---- MODULE Spec2Model ----
(***************************************************************************)
(* Model of vtex/cli-plugin-redirects: the checkpoint store (metainfo),    *)
(* the ordered FileWriteQueue, the export engine and the import/delete     *)
(* batch engine.                                                           *)
(*                                                                         *)
(* Strings whose characters matter (CSV cells) are sequences of            *)
(* one-character strings.  JavaScript objects are functions with a finite  *)
(* domain; a key that is absent from the domain reads as Undefined.        *)
(***************************************************************************)
EXTENDS Integers, Sequences, FiniteSets, TLC

\* ---------------------------------------------------------------- bounds
MaxPages == 2
MaxQueuePages == 3
MaxPageLen == 2
MaxBatchSize == 2
MaxFaults == 1
MaxWindow == 2
MaxCounter == 2
MaxOps == 2
MaxRetriesConfig == 1
MaxRecords == 21
MaxRuns == 2
MaxRetryBudget == 2
MaxAttempt == 4
MaxTextLen == 3
MaxFileLen == 3

\* ------------------------------------------------------------- constants
DELIMITER == ";"
MAX_ENTRIES_PER_REQUEST == 10
MAX_RETRIES == 10
FIELDS == <<"from", "to", "type", "endDate", "binding">>
EXPORTS == "exports"
IMPORTS == "imports"
DELETES == "deletes"

Undefined == "undefined"

\* ------------------------------------------------------ generic helpers
RECURSIVE Flatten(_)
Flatten(ss) == IF ss = <<>> THEN <<>> ELSE Head(ss) \o Flatten(Tail(ss))

RECURSIVE SumSeq(_)
SumSeq(s) == IF s = <<>> THEN 0 ELSE Head(s) + SumSeq(Tail(s))

Min(a, b) == IF a <= b THEN a ELSE b
Max(a, b) == IF a >= b THEN a ELSE b

\* obj[key] of a JavaScript object: Undefined when the key is absent
Get(obj, key) == IF key \in DOMAIN obj THEN obj[key] ELSE Undefined

\* obj[key] = value
Put(obj, key, value) == [k \in (DOMAIN obj) \cup {key} |-> IF k = key THEN value ELSE obj[k]]

\* delete obj[key]
Del(obj, key) == [k \in (DOMAIN obj) \ {key} |-> obj[k]]

EmptyObj == [k \in {} |-> Undefined]

\* ------------------------------------------------------------ CSV cells
\* encodeURIComponent(';')
EncodedDelimiter == <<"%", "3", "B">>

\* String.prototype.replace with a string pattern: first occurrence only
RECURSIVE ReplaceFirst(_, _, _)
ReplaceFirst(x, c, by) ==
  IF x = <<>> THEN <<>>
  ELSE IF Head(x) = c THEN by \o Tail(x)
  ELSE <<Head(x)>> \o ReplaceFirst(Tail(x), c, by)

encode(x) == ReplaceFirst(x, DELIMITER, EncodedDelimiter)

\* String(value).replace(/"/g, '""')
RECURSIVE DoubleQuotes(_)
DoubleQuotes(x) ==
  IF x = <<>> THEN <<>>
  ELSE (IF Head(x) = "\"" THEN <<"\"", "\"">> ELSE <<Head(x)>>) \o DoubleQuotes(Tail(x))

\* `"${String(value).replace(/"/g, '""')}"` with value = encodedRoute[field] || ''
CsvCell(route, field) ==
  LET raw == IF field \in DOMAIN route THEN route[field] ELSE <<>>
      value == IF field \in {"from", "to"} THEN encode(raw) ELSE raw
  IN <<"\"">> \o DoubleQuotes(value) \o <<"\"">>

RECURSIVE JoinCells(_, _)
JoinCells(route, fields) ==
  IF fields = <<>> THEN <<>>
  ELSE IF Len(fields) = 1 THEN CsvCell(route, Head(fields))
  ELSE CsvCell(route, Head(fields)) \o <<DELIMITER>> \o JoinCells(route, Tail(fields))

\* one CSV line (without its trailing newline)
CsvRow(route) == JoinCells(route, FIELDS)

\* FIELDS.join(DELIMITER)
HeaderLine == <<"f", "r", "o", "m", ";", "t", "o", ";", "t", "y", "p", "e", ";",
                "e", "n", "d", "D", "a", "t", "e", ";", "b", "i", "n", "d", "i", "n", "g">>

\* ----------------------------------------------------------------- state
VARIABLES
  \* input data: the redirect routes of the account, as the API pages them
  pages,
  \* FileWriteQueue
  queue, nextExpectedPage, isWriting, batchSize,
  \* the processQueue call suspended at `await this.writePageToFile(...)`
  drain,
  \* the promises returned by addPage, by call number
  promises,
  \* every writeStream.write call, each a sequence of lines
  writes,
  \* the failures (of a write, of a remote call, a timeout) the environment
  \* may still inject
  faults,
  \* the page index handed to each addPage call, by call number
  added,
  \* the checkpoint store: the object in memory and the metainfo file
  metainfo, disk,
  \* the last checkpoint operation and its arguments
  lastOp,
  \* handleExport and its caller: where the engine is suspended
  pc,
  \* the locals of handleExport
  next, routeCount, pageIndex, pendingWrites, fetched, listenerOpen, streamEnded,
  \* the configuration of the run
  window, maxRetries,
  \* retryWithBackoff's attempt counter and the module's retryCount
  attempt, retryCount,
  \* every rewriter.exportRedirects call of this handleExport invocation
  apiLog,
  \* the error thrown out of handleExport, and the exit status
  lastError, exitCode,
  \* what this invocation met
  hist,
  \* import and delete: the command line and the remote keys, the sorted
  \* records, where the flow is, the running batch job
  input, records, ipc, job,
  \* every remote batch call, the progress bar ticks, the returned keys
  sent, ticks, returned,
  \* the scratch CSV of a reset, the error thrown
  scratch, ierror,
  \* retryWithBackoff on its own: its locals, the calls and the sleeps
  retry,
  \* the last call of a pure function of utils: arguments and result
  util,
  \* the process around a command: the exported function of the export
  \* module, or the input reader and validator, and the exit status
  proc

ivars == <<input, records, ipc, job, sent, ticks, returned, scratch, ierror>>
evars == <<pc, next, routeCount, pageIndex, pendingWrites, fetched, listenerOpen, streamEnded,
           window, maxRetries, attempt, retryCount, apiLog, lastError, exitCode, hist>>
mvars == <<metainfo, disk, lastOp>>
qfields == <<queue, nextExpectedPage, isWriting, batchSize, drain, promises, writes, added>>
qvars == <<qfields, faults>>
uvars == <<retry, util, proc>>
vars == <<pages, qvars, mvars, evars, ivars, uvars>>

\* ------------------------------------------------------------ input data
Digits == <<"0", "1", "2", "3", "4", "5", "6", "7", "8", "9">>
Digit(n) == Digits[n + 1]
DigitVal(c) == CHOOSE d \in 0..9 : Digit(d) = c

PERMANENT == <<"P", "E", "R", "M", "A", "N", "E", "N", "T">>
TEMPORARY == <<"T", "E", "M", "P", "O", "R", "A", "R", "Y">>

\* the i-th route of page p: all routes are distinct; some paths hold the
\* delimiter or a double quote, some fields are absent
RouteAt(p, i) ==
  LET base == <<"/", Digit(p), Digit(i)>>
      from == IF i % 3 = 1 THEN base \o <<";", "a">>
              ELSE IF i % 3 = 2 THEN base \o <<"\"">>
              ELSE base
      r == [from |-> from, to |-> <<"/", "t">>, type |-> IF p % 2 = 0 THEN PERMANENT ELSE TEMPORARY]
  IN IF i % 2 = 0 THEN Put(r, "endDate", <<"2", "0", "3", "0">>) ELSE r

PagesOfSizes(sizes) == [p \in DOMAIN sizes |-> [i \in 1..sizes[p] |-> RouteAt(p, i)]]

\* the data sets: up to MaxPages pages, all of one size or of sizes that
\* differ from page to page, empty pages included
PageSizesOf(n, uniform, s) ==
  [p \in 0..(n - 1) |-> IF uniform THEN s ELSE (s + p) % (MaxPageLen + 1)]

PageSets(most) ==
  {PagesOfSizes(PageSizesOf(n, uniform, s)) : n \in 1..most, uniform \in BOOLEAN, s \in 0..MaxPageLen}

NumPages == Cardinality(DOMAIN pages)

\* the CSV lines of a page
RowsOf(routes) == [i \in 1..Len(routes) |-> CsvRow(routes[i])]

RECURSIVE RowsOfPagesFrom(_, _)
RowsOfPagesFrom(ps, p) ==
  IF p \notin DOMAIN ps THEN <<>> ELSE RowsOf(ps[p]) \o RowsOfPagesFrom(ps, p + 1)

\* all data lines of the data set, in ascending page order
AllRows == RowsOfPagesFrom(pages, 0)

\* ------------------------------------------------------- checkpoint store
\* the metainfo file: absent, not parseable, or a JSON document
Missing == [state |-> "missing"]
Corrupt == [state |-> "corrupt"]
JsonFile(content) == [state |-> "json", content |-> content]

OperationTypes == {EXPORTS, IMPORTS, DELETES}
Fingerprints == {"h1", "h2"}
CounterValues == {0, 1}
DataValues == {EmptyObj, [next |-> Undefined, routeCount |-> 0], [next |-> "token1", routeCount |-> 1]}

NoOp == [kind |-> "none"]

\* JSON.stringify leaves out the properties whose value is undefined
StripUndefined(data) ==
  [k \in {x \in DOMAIN data : ~(x = "next" /\ data[x] = Undefined)} |-> data[k]]

\* writeJsonSync(METAINFO_FILE, metainfo, { spaces: 2 }): the file written
ToJson(m) ==
  JsonFile([t \in DOMAIN m |->
     [h \in DOMAIN m[t] |-> [counter |-> m[t][h].counter, data |-> StripUndefined(m[t][h].data)]]])

\* readJson(METAINFO_FILE).catch(() => ({}))
readJson(file) == IF file.state = "json" THEN file.content ELSE EmptyObj

saveMetainfoReset(m, metainfoType, fileHash, counter, data) ==
  LET m2 == Put(m, metainfoType, Put(EmptyObj, fileHash, [counter |-> counter, data |-> data]))
  IN [mem |-> m2, file |-> ToJson(m2)]

saveMetainfoAccum(m, metainfoType, fileHash, counter, data) ==
  LET m1 == IF metainfoType \notin DOMAIN m THEN Put(m, metainfoType, EmptyObj) ELSE m
      c == IF fileHash \in DOMAIN m1[metainfoType]
           THEN m1[metainfoType][fileHash].counter + counter ELSE counter
      m2 == Put(m1, metainfoType, Put(m1[metainfoType], fileHash, [counter |-> c, data |-> data]))
  IN [mem |-> m2, file |-> ToJson(m2)]

saveMetainfoStale(m, metainfoType, fileHash, counter, data) ==
  LET m1 == IF metainfoType \notin DOMAIN m THEN Put(m, metainfoType, EmptyObj) ELSE m
      m2 == Put(m1, metainfoType, Put(m1[metainfoType], fileHash, [counter |-> counter, data |-> data]))
  IN [mem |-> m2, file |-> ToJson(m1)]

\* saveMetainfo(metainfo, metainfoType, fileHash, counter, data): the object
\* after the call and the file it writes
saveMetainfo(m, metainfoType, fileHash, counter, data) ==
  LET m1 == IF metainfoType \notin DOMAIN m THEN Put(m, metainfoType, EmptyObj) ELSE m
      m2 == Put(m1, metainfoType, Put(m1[metainfoType], fileHash, [counter |-> counter, data |-> data]))
  IN [mem |-> m2, file |-> ToJson(m2)]

deleteMetainfoKeep(m, file, metainfoType, fileHash) ==
  IF metainfoType \notin DOMAIN m
  THEN [mem |-> m, file |-> file]
  ELSE LET m2 == Del(m, fileHash)
       IN [mem |-> m2, file |-> ToJson(m2)]

\* deleteMetainfo(metainfo, metainfoType, fileHash): file is the content
\* written, or the previous content when the call returns early
deleteMetainfo(m, file, metainfoType, fileHash) ==
  IF metainfoType \notin DOMAIN m
  THEN [mem |-> m, file |-> file]
  ELSE LET m2 == Put(m, metainfoType, Del(m[metainfoType], fileHash))
       IN [mem |-> m2, file |-> ToJson(m2)]

HasEntry(m, t, h) == t \in DOMAIN m /\ h \in DOMAIN m[t]

SameEntry(m1, m2, t, h) ==
  /\ HasEntry(m1, t, h) = HasEntry(m2, t, h)
  /\ HasEntry(m1, t, h) => m1[t][h] = m2[t][h]

\* --------------------------------------------------------- FileWriteQueue
NoDrain == [call |-> 0]

Pending == [state |-> "pending", value |-> 0]
Resolved(v) == [state |-> "resolved", value |-> v]
Rejected(e) == [state |-> "rejected", value |-> 0, error |-> e]

\* writePageToFile: the csvBatch strings handed to writeStream.write, a
\* write being issued when (i + 1) % batchSize = 0 or at the last route
NumWrites(routes, b) == (Len(routes) + b - 1) \div b

\* write calls of a csvBatch that is never emptied: each call repeats the
\* rows of the calls before it
BatchesNoReset(routes, b) ==
  [j \in 1..((Len(routes) + b - 1) \div b) |->
     SubSeq(RowsOf(routes), 1, Min(j * b, Len(routes)))]

BatchesNoTail(routes, b) ==
  [j \in 1..(Len(routes) \div b) |-> SubSeq(RowsOf(routes), (j - 1) * b + 1, j * b)]

Batches(routes, b) ==
  [j \in 1..NumWrites(routes, b) |->
     SubSeq(RowsOf(routes), (j - 1) * b + 1, Min(j * b, Len(routes)))]

\* this.queue.has(this.nextExpectedPage)
QueueHas(q, nxt) == nxt \in DOMAIN q

QueueGetLast(q, nxt) == q[CHOOSE k \in DOMAIN q : \A j \in DOMAIN q : j <= k]

\* this.queue.get(this.nextExpectedPage)
QueueGet(q, nxt) == q[nxt]

\* what the environment does to the write calls of a page: nothing, or the
\* at-th writeStream.write of the page throws an error with this code
NoFault == [at |-> 0]
WriteFaultCodes == {"ENOSPC", "EMFILE"}

FaultChoices(q, nxt) ==
  {NoFault} \cup
  (IF faults > 0 /\ QueueHas(q, nxt)
   THEN [at : 1..NumWrites(QueueGet(q, nxt), batchSize), code : WriteFaultCodes]
   ELSE {})

NoError == [source |-> "none"]

\* parseFileSystemError(error): the user-friendly message
parseFileSystemError(code) ==
  CASE code = "ENOSPC" -> "No space left on device. Please free up disk space and try again."
    [] code \in {"EMFILE", "ENFILE"} -> "Too many open files. Please close other applications and try again."
    [] code = "EACCES" -> "Permission denied. Please check file permissions and try again."
    [] code = "ENOENT" -> "File or directory not found. Please check the file path."
    [] code = "EISDIR" -> "Expected a file but found a directory. Please specify a file path."
    [] code = "EEXIST" -> "File already exists and cannot be overwritten."
    [] code = "ENOTDIR" -> "Path component is not a directory. Please check the file path."
    [] code = "EROFS" -> "Read-only file system. Cannot write to this location."
    [] code = "EPERM" -> "Operation not permitted. Please check your permissions."
    [] OTHER -> "File system error: Unknown error"

\* the enhancedError that writePageToFile rejects with: new Error(friendlyMessage)
WriteError(code) ==
  [source |-> "write", status |-> 0, code |-> "", message |-> parseFileSystemError(code)]

\* a drain that returns after the first page it has written
DrainLoopOnce(c, q, nxt, count, ps, fault) ==
  /\ queue' = q
  /\ nextExpectedPage' = nxt
  /\ IF QueueHas(q, nxt) /\ count = 0
     THEN LET routes == QueueGet(q, nxt)
              calls == Batches(routes, batchSize)
          IN /\ writes' = writes \o (IF fault.at = 0 THEN calls ELSE SubSeq(calls, 1, fault.at - 1))
             /\ faults' = IF fault.at = 0 THEN faults ELSE faults - 1
             /\ drain' = [call |-> c, routes |-> routes, count |-> count, failed |-> fault.at # 0,
                          error |-> IF fault.at = 0 THEN NoError ELSE WriteError(fault.code)]
             /\ isWriting' = TRUE
             /\ promises' = ps
     ELSE /\ writes' = writes
          /\ faults' = faults
          /\ drain' = NoDrain
          /\ isWriting' = FALSE
          /\ promises' = [ps EXCEPT ![c] = Resolved(count)]

\* processQueue from the head of its while loop, run by addPage call c with
\* processedCount = count, up to its next await or its return
DrainLoop(c, q, nxt, count, ps, fault) ==
  /\ queue' = q
  /\ nextExpectedPage' = nxt
  /\ IF QueueHas(q, nxt)
     THEN LET routes == QueueGet(q, nxt)
              calls == Batches(routes, batchSize)
          IN /\ writes' = writes \o (IF fault.at = 0 THEN calls ELSE SubSeq(calls, 1, fault.at - 1))
             /\ faults' = IF fault.at = 0 THEN faults ELSE faults - 1
             /\ drain' = [call |-> c, routes |-> routes, count |-> count, failed |-> fault.at # 0,
                          error |-> IF fault.at = 0 THEN NoError ELSE WriteError(fault.code)]
             /\ isWriting' = TRUE
             /\ promises' = ps
     ELSE /\ writes' = writes
          /\ faults' = faults
          /\ drain' = NoDrain
          /\ isWriting' = FALSE
          /\ promises' = [ps EXCEPT ![c] = Resolved(count)]

\* an addPage that drains from its own page, whatever index is expected
addPageEager(index, routes, fault) ==
  /\ added' = Append(added, index)
  /\ DrainLoop(Len(promises) + 1, Put(queue, index, routes), index, 0,
               Append(promises, Pending), fault)

\* an addPage without the isWriting test: every call starts a drain
addPageReentrant(index, routes, fault) ==
  /\ added' = Append(added, index)
  /\ DrainLoop(Len(promises) + 1, Put(queue, index, routes), nextExpectedPage, 0,
               Append(promises, Pending), fault)

\* an addPage that only inserts its page and never starts a drain
addPageNoDrain(index, routes, fault) ==
  /\ fault = NoFault
  /\ added' = Append(added, index)
  /\ queue' = Put(queue, index, routes)
  /\ promises' = Append(promises, Resolved(0))
  /\ UNCHANGED <<nextExpectedPage, isWriting, drain, writes, faults>>

\* addPage(pageResult), up to the first await of processQueue
addPage(index, routes, fault) ==
  LET c == Len(promises) + 1
      q == Put(queue, index, routes)
  IN /\ added' = Append(added, index)
     /\ IF isWriting
        THEN /\ queue' = q
             /\ promises' = Append(promises, Resolved(0))
             /\ UNCHANGED <<nextExpectedPage, isWriting, drain, writes, faults>>
        ELSE DrainLoop(c, q, nextExpectedPage, 0, Append(promises, Pending), fault)

\* a drain without the finally block: a failed write leaves isWriting set
ResumeDrainNoFinally(fault) ==
  /\ drain # NoDrain
  /\ UNCHANGED added
  /\ IF drain.failed
     THEN /\ fault = NoFault
          /\ isWriting' = TRUE
          /\ drain' = NoDrain
          /\ promises' = [promises EXCEPT ![drain.call] = Rejected(drain.error)]
          /\ UNCHANGED <<queue, nextExpectedPage, writes, faults>>
     ELSE LET q == Del(queue, nextExpectedPage)
              nxt == nextExpectedPage + 1
          IN /\ fault \in FaultChoices(q, nxt)
             /\ DrainLoop(drain.call, q, nxt, drain.count + Len(drain.routes), promises, fault)

\* a drain that forgets the rows of the page it has just written
ResumeDrainNoCount(fault) ==
  /\ drain # NoDrain
  /\ UNCHANGED added
  /\ IF drain.failed
     THEN /\ fault = NoFault
          /\ isWriting' = FALSE
          /\ drain' = NoDrain
          /\ promises' = [promises EXCEPT ![drain.call] = Rejected(drain.error)]
          /\ UNCHANGED <<queue, nextExpectedPage, writes, faults>>
     ELSE LET q == Del(queue, nextExpectedPage)
              nxt == nextExpectedPage + 1
          IN /\ fault \in FaultChoices(q, nxt)
             /\ DrainLoop(drain.call, q, nxt, drain.count, promises, fault)

\* a drain that returns after its write without testing the queue again
ResumeDrainOnce(fault) ==
  /\ drain # NoDrain
  /\ UNCHANGED added
  /\ fault = NoFault
  /\ isWriting' = FALSE
  /\ drain' = NoDrain
  /\ IF drain.failed
     THEN /\ promises' = [promises EXCEPT ![drain.call] = Rejected(drain.error)]
          /\ UNCHANGED <<queue, nextExpectedPage, writes, faults>>
     ELSE /\ promises' = [promises EXCEPT ![drain.call] = Resolved(drain.count + Len(drain.routes))]
          /\ queue' = Del(queue, nextExpectedPage)
          /\ nextExpectedPage' = nextExpectedPage + 1
          /\ UNCHANGED <<writes, faults>>

\* processQueue resumed after `await this.writePageToFile(pageResult)`
ResumeDrain(fault) ==
  /\ drain # NoDrain
  /\ UNCHANGED added
  /\ IF drain.failed
     THEN \* the await throws: finally { isWriting = false }, addPage rejects
          /\ fault = NoFault
          /\ isWriting' = FALSE
          /\ drain' = NoDrain
          /\ promises' = [promises EXCEPT ![drain.call] = Rejected(drain.error)]
          /\ UNCHANGED <<queue, nextExpectedPage, writes, faults>>
     ELSE LET q == Del(queue, nextExpectedPage)
              nxt == nextExpectedPage + 1
          IN /\ fault \in FaultChoices(q, nxt)
             /\ DrainLoop(drain.call, q, nxt, drain.count + Len(drain.routes), promises, fault)

\* getQueueSize()
getQueueSize == Cardinality(DOMAIN queue)

QueueInit ==
  /\ queue = EmptyObj
  /\ nextExpectedPage = 0
  /\ isWriting = FALSE
  /\ drain = NoDrain
  /\ promises = <<>>
  /\ added = <<>>

\* ------------------------------- the checkpoint store driven by any caller
StoreIdle ==
  /\ metainfo = EmptyObj
  /\ disk = Missing
  /\ lastOp = NoOp

QueueIdle ==
  /\ pages = EmptyObj
  /\ batchSize = 1
  /\ writes = <<>>
  /\ QueueInit

EngineIdle ==
  /\ pc = "off"
  /\ next = Undefined
  /\ routeCount = 0
  /\ pageIndex = 0
  /\ pendingWrites = <<>>
  /\ fetched = Undefined
  /\ listenerOpen = FALSE
  /\ streamEnded = FALSE
  /\ window = 1
  /\ maxRetries = 0
  /\ attempt = 0
  /\ retryCount = 0
  /\ apiLog = <<>>
  /\ lastError = NoError
  /\ exitCode = 0
  /\ hist = [runs |-> 0, timeouts |-> 0]

ImportIdle ==
  /\ input = [mode |-> "none"]
  /\ records = <<>>
  /\ ipc = "off"
  /\ job = [flow |-> "none"]
  /\ sent = <<>>
  /\ ticks = 0
  /\ returned = <<>>
  /\ scratch = "absent"
  /\ ierror = NoError

UtilsIdle ==
  /\ retry = [pc |-> "off"]
  /\ util = [fn |-> "none"]
  /\ proc = [pc |-> "off"]

InitialFiles ==
  {Missing, Corrupt, JsonFile(EmptyObj),
   saveMetainfo(saveMetainfo(EmptyObj, EXPORTS, "h1", 0, [next |-> "token2", routeCount |-> 1]).mem,
                IMPORTS, "h2", 1, EmptyObj).file}

InitM ==
  /\ disk \in InitialFiles
  /\ metainfo = readJson(disk)
  /\ lastOp = [kind |-> "load", n |-> 0]
  /\ faults = 0
  /\ QueueIdle
  /\ EngineIdle
  /\ ImportIdle
  /\ UtilsIdle

SaveMetainfo ==
  /\ lastOp.n < MaxOps
  /\ \E t \in OperationTypes, h \in Fingerprints, c \in CounterValues, d \in DataValues :
       LET r == saveMetainfo(metainfo, t, h, c, d)
       IN /\ metainfo' = r.mem
          /\ disk' = r.file
          /\ lastOp' = [kind |-> "save", n |-> lastOp.n + 1, type |-> t, hash |-> h, counter |-> c,
                        data |-> d, had |-> HasEntry(metainfo, t, h)]
  /\ UNCHANGED <<pages, uvars, qvars, evars, ivars>>

DeleteMetainfo ==
  /\ lastOp.n < MaxOps
  /\ \E t \in OperationTypes, h \in Fingerprints :
       LET r == deleteMetainfo(metainfo, disk, t, h)
       IN /\ metainfo' = r.mem
          /\ disk' = r.file
          /\ lastOp' = [kind |-> "delete", n |-> lastOp.n + 1, type |-> t, hash |-> h,
                        had |-> HasEntry(metainfo, t, h)]
  /\ UNCHANGED <<pages, uvars, qvars, evars, ivars>>

\* a new run of a command reads the file
LoadMetainfo ==
  /\ lastOp.n < MaxOps
  /\ metainfo' = readJson(disk)
  /\ lastOp' = [kind |-> "load", n |-> lastOp.n + 1]
  /\ UNCHANGED <<disk, pages, uvars, qvars, evars, ivars>>

NextM == SaveMetainfo \/ DeleteMetainfo \/ LoadMetainfo

SpecM == InitM /\ [][NextM]_vars

OtherEntriesKept(m1, m2, op) ==
  \A t \in OperationTypes, h \in Fingerprints :
    (t # op.type \/ h # op.hash) => SameEntry(m1, m2, t, h)

\* C4: saveMetainfo(op, fingerprint, ...) and deleteMetainfo(op, fingerprint)
\* leave every entry of another operation type and of another fingerprint
\* unchanged, in the in-memory object and in the persisted file.
CheckpointFrame ==
  [][lastOp'.kind \in {"save", "delete"} =>
       /\ OtherEntriesKept(metainfo, metainfo', lastOp')
       /\ OtherEntriesKept(readJson(disk), readJson(disk'), lastOp')]_vars

\* an entry was overwritten or removed while another fingerprint of the same
\* operation type and an entry of another operation type are stored
CheckpointFrameWitness ==
  /\ lastOp.kind \in {"save", "delete"}
  /\ lastOp.had
  /\ \E h \in Fingerprints \ {lastOp.hash} :
       HasEntry(metainfo, lastOp.type, h) /\ HasEntry(readJson(disk), lastOp.type, h)
  /\ \E t \in OperationTypes \ {lastOp.type}, h \in Fingerprints :
       HasEntry(metainfo, t, h) /\ HasEntry(readJson(disk), t, h)

\* the store after repeating the save that op records
SavedAgain(m, op) == saveMetainfo(m, op.type, op.hash, op.counter, op.data)

\* C5: a second saveMetainfo with the same arguments changes neither the
\* object nor the file, and deleteMetainfo of an operation type or a
\* fingerprint without an entry leaves the contents of both unchanged.
CheckpointIdempotent ==
  [][/\ (lastOp'.kind = "save" =>
            /\ SavedAgain(metainfo', lastOp').mem = metainfo'
            /\ SavedAgain(metainfo', lastOp').file = disk')
      /\ ((lastOp'.kind = "delete" /\ ~lastOp'.had) =>
            /\ \A t \in OperationTypes, h \in Fingerprints : SameEntry(metainfo, metainfo', t, h)
            /\ readJson(disk') = readJson(disk))]_vars

\* a delete for an absent fingerprint under a stored operation type has run
CheckpointIdempotentWitness ==
  /\ lastOp.kind = "delete"
  /\ ~lastOp.had
  /\ lastOp.type \in DOMAIN metainfo
  /\ \E h \in Fingerprints : HasEntry(metainfo, lastOp.type, h)

\* ----------------------------------- the queue driven in arbitrary order
InitQ ==
  /\ pages \in PageSets(MaxQueuePages)
  /\ batchSize \in 1..MaxBatchSize
  /\ faults = MaxFaults
  /\ writes = <<>>
  /\ QueueInit
  /\ StoreIdle
  /\ EngineIdle
  /\ ImportIdle
  /\ UtilsIdle

AddedSet == {added[i] : i \in DOMAIN added}

\* a caller submits a page that has not been submitted yet
AddPage ==
  /\ \E p \in (DOMAIN pages) \ AddedSet :
       \E fault \in FaultChoices(Put(queue, p, pages[p]), nextExpectedPage) :
         /\ (isWriting => fault = NoFault)
         /\ addPage(p, pages[p], fault)
  /\ UNCHANGED <<pages, uvars, batchSize, mvars, evars, ivars>>

Resume ==
  /\ pc # "exited"
  /\ \E fault \in {NoFault} \cup [at : 1..MaxPageLen, code : WriteFaultCodes] : ResumeDrain(fault)
  /\ UNCHANGED <<pages, uvars, batchSize, mvars, evars, ivars>>

NextQ == AddPage \/ Resume

SpecQ == InitQ /\ [][NextQ]_vars

AllSettled ==
  /\ AddedSet = DOMAIN pages
  /\ drain = NoDrain

NoRejection == \A c \in DOMAIN promises : promises[c].state # "rejected"

\* C1: once every page 0..n-1 has been submitted, in whatever order and
\* interleaving, and all addPage calls have resolved, the lines written to
\* the sink are the pages' rows in ascending pageIndex order, once each.
OrderedOutput ==
  (AllSettled /\ NoRejection) => Flatten(writes) = AllRows

\* pages 2, 0, 1 submitted in that order, all non-empty, all written
OrderedOutputWitness ==
  /\ AllSettled /\ NoRejection
  /\ added = <<2, 0, 1>>
  /\ \A p \in DOMAIN pages : Len(pages[p]) > 0
  /\ Flatten(writes) = AllRows

\* ------------------------------------------------------- error handling
ApiError(status, code) == [source |-> "api", status |-> status, code |-> code, message |-> "api error"]

\* what rewriter.exportRedirects may throw
ApiErrors ==
  {ApiError(429, ""), ApiError(500, ""), ApiError(404, ""), ApiError(0, "ECONNRESET"), ApiError(0, "")}

\* new Error('Request timeout after 60 seconds')
TimeoutError ==
  [source |-> "timeout", status |-> 0, code |-> "", message |-> "Request timeout after 60 seconds"]

\* a falsy value thrown (null, undefined)
NullError == [source |-> "null"]

\* error.status || error.response?.status || error.statusCode; 0 stands for
\* a status that is absent
ErrorStatus(error) ==
  LET own == IF "status" \in DOMAIN error THEN error.status ELSE 0
      resp == IF "response" \in DOMAIN error /\ "status" \in DOMAIN error.response
              THEN error.response.status ELSE 0
      other == IF "statusCode" \in DOMAIN error THEN error.statusCode ELSE 0
  IN IF own # 0 THEN own ELSE IF resp # 0 THEN resp ELSE other

\* error.headers || error.response?.headers || {}
ErrorHeaders(error) ==
  IF "headers" \in DOMAIN error THEN error.headers
  ELSE IF "response" \in DOMAIN error /\ "headers" \in DOMAIN error.response
       THEN error.response.headers
  ELSE EmptyObj

\* headers[name]; the empty string stands for an absent header too
Header(headers, name) == IF name \in DOMAIN headers THEN headers[name] ELSE <<>>

\* headers['retry-after'] || headers['Retry-After']
RetryAfterHeader(headers) ==
  IF Header(headers, "retry-after") # <<>> THEN Header(headers, "retry-after")
  ELSE Header(headers, "Retry-After")

IsDigit(ch) == \E d \in 0..9 : Digit(d) = ch

\* Number.isNaN(parseInt(x, 10)) for a text without sign and leading blank
parseIntIsNaN(x) == x = <<>> \/ ~IsDigit(Head(x))

\* parseInt(x, 10): the digits up to the first other character
RECURSIVE parseIntFrom(_, _)
parseIntFrom(x, acc) ==
  IF x = <<>> \/ ~IsDigit(Head(x)) THEN acc
  ELSE parseIntFrom(Tail(x), 10 * acc + DigitVal(Head(x)))

parseInt(x) == parseIntFrom(x, 0)

\* new Date(retryAfter).getTime() - new Date().getTime(): an HTTP date is
\* held as "D" and the milliseconds it lies after the clock reading, or
\* "P" and the milliseconds it lies before it
DateDiff(retryAfter) ==
  IF Head(retryAfter) = "D" THEN parseInt(Tail(retryAfter)) ELSE 0 - parseInt(Tail(retryAfter))

\* parseRetryAfterHeader(retryAfter), in milliseconds
parseRetryAfterHeader(retryAfter) ==
  IF retryAfter = <<>> THEN 0
  ELSE IF ~parseIntIsNaN(retryAfter) THEN parseInt(retryAfter) * 1000
  ELSE Max(0, DateDiff(retryAfter))

classifyErrorRetryClient(error) ==
  IF error = NullError THEN [type |-> "unknown", retryable |-> FALSE]
  ELSE IF ErrorStatus(error) = 429
       THEN [type |-> "rate_limit", retryable |-> TRUE,
             retryAfter |-> parseRetryAfterHeader(RetryAfterHeader(ErrorHeaders(error)))]
  ELSE IF ErrorStatus(error) >= 400 /\ ErrorStatus(error) < 600
       THEN [type |-> "server_error", retryable |-> TRUE]
  ELSE IF "code" \in DOMAIN error /\ error.code \in {"ECONNRESET", "ETIMEDOUT", "ENOTFOUND"}
       THEN [type |-> "network_error", retryable |-> TRUE]
  ELSE [type |-> "unknown", retryable |-> FALSE]

classifyErrorNoNetwork(error) ==
  IF error = NullError THEN [type |-> "unknown", retryable |-> FALSE]
  ELSE IF ErrorStatus(error) = 429
       THEN [type |-> "rate_limit", retryable |-> TRUE,
             retryAfter |-> parseRetryAfterHeader(RetryAfterHeader(ErrorHeaders(error)))]
  ELSE IF ErrorStatus(error) >= 500 /\ ErrorStatus(error) < 600
       THEN [type |-> "server_error", retryable |-> TRUE]
  ELSE IF ErrorStatus(error) >= 400 /\ ErrorStatus(error) < 500
       THEN [type |-> "client_error", retryable |-> FALSE]
  ELSE IF "code" \in DOMAIN error /\ error.code \in {"ECONNRESET", "ETIMEDOUT"}
       THEN [type |-> "network_error", retryable |-> TRUE]
  ELSE [type |-> "unknown", retryable |-> FALSE]

classifyErrorRetryUnknown(error) ==
  IF error = NullError THEN [type |-> "unknown", retryable |-> FALSE]
  ELSE IF ErrorStatus(error) = 429
       THEN [type |-> "rate_limit", retryable |-> TRUE,
             retryAfter |-> parseRetryAfterHeader(RetryAfterHeader(ErrorHeaders(error)))]
  ELSE IF ErrorStatus(error) >= 500 /\ ErrorStatus(error) < 600
       THEN [type |-> "server_error", retryable |-> TRUE]
  ELSE IF ErrorStatus(error) >= 400 /\ ErrorStatus(error) < 500
       THEN [type |-> "client_error", retryable |-> FALSE]
  ELSE IF "code" \in DOMAIN error /\ error.code \in {"ECONNRESET", "ETIMEDOUT", "ENOTFOUND"}
       THEN [type |-> "network_error", retryable |-> TRUE]
  ELSE [type |-> "unknown", retryable |-> TRUE]

\* classifyError(error)
classifyError(error) ==
  IF error = NullError THEN [type |-> "unknown", retryable |-> FALSE]
  ELSE IF ErrorStatus(error) = 429
       THEN [type |-> "rate_limit", retryable |-> TRUE,
             retryAfter |-> parseRetryAfterHeader(RetryAfterHeader(ErrorHeaders(error)))]
  ELSE IF ErrorStatus(error) >= 500 /\ ErrorStatus(error) < 600
       THEN [type |-> "server_error", retryable |-> TRUE]
  ELSE IF ErrorStatus(error) >= 400 /\ ErrorStatus(error) < 500
       THEN [type |-> "client_error", retryable |-> FALSE]
  ELSE IF "code" \in DOMAIN error /\ error.code \in {"ECONNRESET", "ETIMEDOUT", "ENOTFOUND"}
       THEN [type |-> "network_error", retryable |-> TRUE]
  ELSE [type |-> "unknown", retryable |-> FALSE]

\* e.message.includes('Request timeout')
IsTimeoutMessage(message) == message = TimeoutError.message

\* e.message.includes('No space left') || e.message.includes('Permission denied')
\*   || e.message.includes('File system error')
IsFileSystemMessage(message) ==
  message \in {parseFileSystemError("ENOSPC"), parseFileSystemError("EACCES"), parseFileSystemError("")}

\* ------------------------------------------------------ the remote API
TokenNames == <<"token1", "token2", "token3", "token4", "token5">>
Token(k) == TokenNames[k]
PageOfCursor(cursor) ==
  IF cursor = Undefined THEN 0 ELSE CHOOSE k \in 1..Len(TokenNames) : TokenNames[k] = cursor

\* rewriter.exportRedirects(cursor): the page and the cursor of the next one
exportRedirects(cursor) ==
  LET k == PageOfCursor(cursor)
  IN [routes |-> pages[k], next |-> IF (k + 1) \in DOMAIN pages THEN Token(k + 1) ELSE Undefined]

\* ------------------------------------------------------- export engine
indexHash == "h1"

LastCall == apiLog[Len(apiLog)]
MarkLast(state, tok) == [apiLog EXCEPT ![Len(apiLog)] = [cursor |-> @.cursor, state |-> state, next |-> tok]]

\* the call awaited rejects with err
MarkFailed(err) ==
  [apiLog EXCEPT ![Len(apiLog)] = [cursor |-> @.cursor, state |-> "error", next |-> Undefined,
                                   error |-> err]]

\* a call of rewriter.exportRedirects(cursor) is issued
IssueFetch(cursor, log) == Append(log, [cursor |-> cursor, state |-> "inflight", next |-> Undefined])

\* saveMetainfo(metainfo, EXPORTS, indexHash, 0, { next, routeCount })
SaveProgress ==
  LET d == [next |-> next, routeCount |-> routeCount]
      r == saveMetainfo(metainfo, EXPORTS, indexHash, 0, d)
  IN /\ metainfo' = r.mem
     /\ disk' = r.file
     /\ lastOp' = [kind |-> "save", n |-> 0, type |-> EXPORTS, hash |-> indexHash, counter |-> 0,
                   data |-> d, had |-> HasEntry(metainfo, EXPORTS, indexHash)]

\* deleteMetainfo(metainfo, EXPORTS, indexHash)
ClearProgress ==
  LET r == deleteMetainfo(metainfo, disk, EXPORTS, indexHash)
  IN /\ metainfo' = r.mem
     /\ disk' = r.file
     /\ lastOp' = [kind |-> "delete", n |-> 0, type |-> EXPORTS, hash |-> indexHash,
                   had |-> HasEntry(metainfo, EXPORTS, indexHash)]

\* a lookup that hands the entry of another fingerprint to this export
exportMetainfoAnyHash(m0) ==
  LET e == IF EXPORTS \in DOMAIN m0 THEN m0[EXPORTS] ELSE EmptyObj
  IN IF DOMAIN e = {} THEN e
     ELSE [h \in DOMAIN e \cup {indexHash} |-> e[CHOOSE k \in DOMAIN e : TRUE]]

\* metainfo[EXPORTS] || {}: the entries of the exports, by fingerprint
exportMetainfoOf(m0) == IF EXPORTS \in DOMAIN m0 THEN m0[EXPORTS] ELSE EmptyObj

\* handleExport up to its first page fetch: checkpoint read, resume prompt,
\* output stream and header, first rewriter.exportRedirects call
Begin ==
  LET m0 == readJson(disk)
      exportMetainfo == exportMetainfoOf(m0)
      hasSavedProgress == indexHash \in DOMAIN exportMetainfo
      data == IF hasSavedProgress THEN exportMetainfo[indexHash].data
              ELSE [routeCount |-> 0, next |-> Undefined]
      savedCount == IF "routeCount" \in DOMAIN data THEN data.routeCount ELSE 0
      savedNext == Get(data, "next")
      ask == hasSavedProgress /\ (savedCount > 0 \/ savedNext # Undefined)
  IN \E shouldResume \in BOOLEAN :
       /\ ~ask => shouldResume
       /\ LET cleared == deleteMetainfo(m0, disk, EXPORTS, indexHash)
              count0 == IF shouldResume THEN savedCount ELSE 0
              next0 == IF shouldResume THEN savedNext ELSE Undefined
          IN /\ metainfo' = IF shouldResume THEN m0 ELSE cleared.mem
             /\ disk' = IF shouldResume THEN disk ELSE cleared.file
             /\ lastOp' = IF shouldResume THEN [kind |-> "load", n |-> 0]
                          ELSE [kind |-> "delete", n |-> 0, type |-> EXPORTS, hash |-> indexHash,
                                had |-> TRUE]
             /\ routeCount' = count0
             /\ next' = next0
             /\ hist' = [runs |-> hist.runs + 1, resumed |-> (count0 # 0 \/ next0 # Undefined),
                       timeouts |-> 0]
             /\ apiLog' = IssueFetch(next0, <<>>)
       /\ writes' = <<<<HeaderLine>>>>
       /\ queue' = EmptyObj
       /\ nextExpectedPage' = 0
       /\ isWriting' = FALSE
       /\ drain' = NoDrain
       /\ promises' = <<>>
       /\ added' = <<>>
       /\ pageIndex' = 0
       /\ pendingWrites' = <<>>
       /\ fetched' = Undefined
       /\ listenerOpen' = TRUE
       /\ streamEnded' = FALSE
       /\ lastError' = NoError
       /\ attempt' = 0
       /\ pc' = "fetching"
       /\ UNCHANGED <<pages, uvars, batchSize, faults, window, maxRetries, exitCode, ivars>>

\* the command is run
Start ==
  /\ pc = "idle"
  /\ Begin
  /\ UNCHANGED retryCount

AdvanceStale(tok, log) ==
  /\ next' = tok
  /\ IF tok # Undefined
     THEN /\ pc' = "fetching"
          /\ attempt' = 0
          /\ apiLog' = IssueFetch(next, log)
     ELSE /\ pc' = "awaitAll"
          /\ attempt' = attempt
          /\ apiLog' = log

\* the end of a loop iteration: next = result.next, then `while (next)`
\* either starts the next iteration and its fetch or leaves the loop for
\* `await Promise.all(pendingWrites)`
Advance(tok, log) ==
  /\ next' = tok
  /\ IF tok # Undefined
     THEN /\ pc' = "fetching"
          /\ attempt' = 0
          /\ apiLog' = IssueFetch(tok, log)
     ELSE /\ pc' = "awaitAll"
          /\ attempt' = attempt
          /\ apiLog' = log

\* the catch block of the fetch loop, entered with error e
Catch(e) ==
  IF IsTimeoutMessage(e.message)
  THEN \* progress cleared, `continue` re-evaluates `while (next)` with next undefined
       /\ ClearProgress
       /\ next' = Undefined
       /\ routeCount' = 0
       /\ pc' = "awaitAll"
       /\ UNCHANGED <<lastError, streamEnded, listenerOpen>>
  ELSE IF IsFileSystemMessage(e.message)
  THEN /\ streamEnded' = TRUE
       /\ listenerOpen' = FALSE
       /\ lastError' = e
       /\ pc' = "threw"
       /\ UNCHANGED <<mvars, next, routeCount>>
  ELSE /\ SaveProgress
       /\ streamEnded' = TRUE
       /\ listenerOpen' = FALSE
       /\ lastError' = e
       /\ pc' = "threw"
       /\ UNCHANGED <<next, routeCount>>

\* a window test that never asks the loop to wait
WindowNeverFull(pending, limit) == FALSE

\* pendingWrites.length >= config.maxConcurrentRequests
WindowFull(pending, limit) == Len(pending) >= limit

\* the page fetch returns: the page is handed to the queue, the row count
\* grows, and the in-flight window is enforced
FetchOk ==
  /\ pc = "fetching"
  /\ LET result == exportRedirects(LastCall.cursor)
         log == MarkLast("ok", result.next)
         c == Len(promises) + 1
     IN /\ \E fault \in FaultChoices(Put(queue, pageIndex, result.routes), nextExpectedPage) :
             /\ isWriting => fault = NoFault
             /\ addPage(pageIndex, result.routes, fault)
        /\ pageIndex' = pageIndex + 1
        /\ pendingWrites' = Append(pendingWrites, c)
        /\ routeCount' = routeCount + Len(result.routes)
        /\ IF WindowFull(Append(pendingWrites, c), window)
           THEN /\ pc' = "awaitOldest"
                /\ fetched' = result.next
                /\ apiLog' = log
                /\ UNCHANGED <<next, attempt>>
           ELSE /\ Advance(result.next, log)
                /\ UNCHANGED fetched
  /\ UNCHANGED <<ivars, pages, uvars, batchSize, mvars, listenerOpen, streamEnded, window, maxRetries, retryCount,
                 lastError, exitCode, hist>>

\* `await pendingWrites[0]` returns or throws
AwaitOldest ==
  /\ pc = "awaitOldest"
  /\ LET p == promises[Head(pendingWrites)]
     IN /\ p.state # "pending"
        /\ IF p.state = "resolved"
           THEN /\ pendingWrites' = Tail(pendingWrites)
                /\ Advance(fetched, apiLog)
                /\ UNCHANGED <<mvars, routeCount, lastError, streamEnded, listenerOpen>>
           ELSE /\ Catch(p.error)
                /\ UNCHANGED <<pendingWrites, apiLog, attempt>>
  /\ UNCHANGED <<ivars, pages, uvars, qvars, pageIndex, fetched, window, maxRetries, retryCount, exitCode, hist>>

\* rewriter.exportRedirects throws inside retryWithBackoff
FetchError ==
  /\ pc = "fetching"
  /\ faults > 0
  /\ \E err \in ApiErrors :
       /\ attempt' = attempt + 1
       /\ faults' = faults - 1
       /\ apiLog' = MarkFailed(err)
       /\ IF ~classifyError(err).retryable \/ attempt + 1 > maxRetries
          THEN Catch(err)
          ELSE /\ pc' = "backoff"
               /\ UNCHANGED <<mvars, next, routeCount, lastError, streamEnded, listenerOpen>>
  /\ UNCHANGED <<ivars, pages, uvars, qfields, pageIndex, pendingWrites, fetched, window, maxRetries, retryCount,
                 exitCode, hist>>

\* retryWithBackoff wakes from its sleep and calls the operation again
BackoffDone ==
  /\ pc = "backoff"
  /\ pc' = "fetching"
  /\ apiLog' = IssueFetch(next, apiLog)
  /\ UNCHANGED <<ivars, pages, uvars, qvars, mvars, next, routeCount, pageIndex, pendingWrites, fetched,
                 listenerOpen, streamEnded, window, maxRetries, attempt, retryCount, lastError,
                 exitCode, hist>>

\* the 60 second timer wins the Promise.race
Timeout ==
  /\ pc \in {"fetching", "backoff"}
  /\ faults > 0
  /\ faults' = faults - 1
  /\ apiLog' = IF LastCall.state = "inflight" THEN MarkLast("abandoned", Undefined) ELSE apiLog
  /\ Catch(TimeoutError)
  /\ hist' = [hist EXCEPT !.timeouts = @ + 1]
  /\ UNCHANGED <<ivars, pages, uvars, qfields, pageIndex, pendingWrites, fetched, window, maxRetries, attempt,
                 retryCount, exitCode>>

PendingStates == {promises[pendingWrites[i]].state : i \in DOMAIN pendingWrites}

\* `await Promise.all(pendingWrites)` throws: the outer catch ends the stream
AwaitAllRejected ==
  /\ pc = "awaitAll"
  /\ \E i \in DOMAIN pendingWrites :
       /\ promises[pendingWrites[i]].state = "rejected"
       /\ lastError' = promises[pendingWrites[i]].error
  /\ streamEnded' = TRUE
  /\ pc' = "threw"
  /\ UNCHANGED <<ivars, pages, uvars, qvars, mvars, next, routeCount, pageIndex, pendingWrites, fetched,
                 listenerOpen, window, maxRetries, attempt, retryCount, apiLog, exitCode, hist>>

\* a completion that waits neither for the submissions nor for the queue
AwaitAllDoneEarly ==
  /\ pc \in {"awaitAll", "polling"}
  /\ streamEnded' = TRUE
  /\ listenerOpen' = FALSE
  /\ ClearProgress
  /\ pc' = "done"
  /\ UNCHANGED <<ivars, pages, uvars, qvars, next, routeCount, pageIndex, pendingWrites, fetched, window,
                 maxRetries, attempt, retryCount, apiLog, lastError, exitCode, hist>>

\* `await Promise.all(pendingWrites)` or `await sleep(50)` returns: the poll
\* loop tests the queue size, and the export completes when it is empty
AwaitAllDone ==
  /\ pc \in {"awaitAll", "polling"}
  /\ pc = "awaitAll" => PendingStates \subseteq {"resolved"}
  /\ IF getQueueSize > 0
     THEN /\ pc' = "polling"
          /\ UNCHANGED <<mvars, streamEnded, listenerOpen>>
     ELSE /\ streamEnded' = TRUE
          /\ listenerOpen' = FALSE
          /\ ClearProgress
          /\ pc' = "done"
  /\ UNCHANGED <<ivars, pages, uvars, qvars, next, routeCount, pageIndex, pendingWrites, fetched, window,
                 maxRetries, attempt, retryCount, apiLog, lastError, exitCode, hist>>

\* the SIGINT listener
Interrupt ==
  /\ pc \in {"fetching", "backoff", "awaitOldest", "awaitAll", "polling", "retryWait"}
  /\ listenerOpen
  /\ SaveProgress
  /\ streamEnded' = TRUE
  /\ exitCode' = 0
  /\ pc' = "exited"
  /\ UNCHANGED <<ivars, pages, uvars, qvars, next, routeCount, pageIndex, pendingWrites, fetched, listenerOpen,
                 window, maxRetries, attempt, retryCount, apiLog, lastError,
                 hist>>

\* the catch of the exported function
WrapperCatch ==
  /\ pc = "threw"
  /\ IF \/ IsFileSystemMessage(lastError.message)
        \/ ~classifyError(lastError).retryable
        \/ retryCount >= MAX_RETRIES
     THEN pc' = "exited" /\ exitCode' = 1
     ELSE pc' = "retryWait" /\ exitCode' = exitCode
  /\ UNCHANGED <<ivars, pages, uvars, qvars, mvars, next, routeCount, pageIndex, pendingWrites, fetched,
                 listenerOpen, streamEnded, window, maxRetries, attempt, retryCount, apiLog,
                 lastError, hist>>

\* a retry that goes on from the state in memory: no checkpoint read, no
\* new output stream
RestartInMemory ==
  /\ pc = "retryWait"
  /\ retryCount' = retryCount + 1
  /\ hist' = [hist EXCEPT !.runs = @ + 1]
  /\ apiLog' = IssueFetch(next, apiLog)
  /\ attempt' = 0
  /\ lastError' = NoError
  /\ listenerOpen' = TRUE
  /\ streamEnded' = FALSE
  /\ pc' = "fetching"
  /\ UNCHANGED <<ivars, pages, uvars, qvars, mvars, next, routeCount, pageIndex, pendingWrites, fetched,
                 window, maxRetries, exitCode>>

\* sleepWithJitter returns: retryCount++ and the export is invoked again
Restart ==
  /\ pc = "retryWait"
  /\ retryCount' = retryCount + 1
  /\ Begin

ExportFiles ==
  {Missing} \cup
  (IF 1 \in DOMAIN pages
   THEN {saveMetainfo(saveMetainfo(EmptyObj, IMPORTS, "h2", 1, EmptyObj).mem, EXPORTS, indexHash, 0,
                      [next |-> Token(1), routeCount |-> Len(pages[0])]).file}
   ELSE \* entries of an import of this file and of the export of another file
        {saveMetainfo(saveMetainfo(EmptyObj, IMPORTS, indexHash, 1, EmptyObj).mem, EXPORTS, "h2", 0,
                      [next |-> Token(1), routeCount |-> 1]).file})

InitE ==
  /\ pages \in PageSets(MaxPages)
  /\ batchSize \in 1..MaxBatchSize
  /\ faults = MaxFaults
  /\ writes = <<>>
  /\ QueueInit
  /\ disk \in ExportFiles
  /\ metainfo = EmptyObj
  /\ lastOp = NoOp
  /\ pc = "idle"
  /\ next = Undefined
  /\ routeCount = 0
  /\ pageIndex = 0
  /\ pendingWrites = <<>>
  /\ fetched = Undefined
  /\ listenerOpen = FALSE
  /\ streamEnded = FALSE
  /\ window \in 1..MaxWindow
  /\ maxRetries \in 0..MaxRetriesConfig
  /\ attempt = 0
  /\ retryCount = 0
  /\ apiLog = <<>>
  /\ lastError = NoError
  /\ exitCode = 0
  /\ hist = [runs |-> 0, timeouts |-> 0]
  /\ ImportIdle
  /\ UtilsIdle

NextE ==
  \/ Start \/ FetchOk \/ AwaitOldest \/ FetchError \/ BackoffDone \/ Timeout
  \/ AwaitAllRejected \/ AwaitAllDone \/ Interrupt \/ WrapperCatch \/ Restart \/ Resume

SpecE == InitE /\ [][NextE]_vars

\* no fetch of this invocation has failed or timed out
NoFetchFailure == \A i \in DOMAIN apiLog : apiLog[i].state \in {"ok", "inflight"}

\* no page write of this invocation has failed
NoWriteFailure == NoRejection /\ (drain # NoDrain => ~drain.failed)

\* an export that started without saved progress has completed
FreshExportDone ==
  /\ pc = "done"
  /\ ~hist.resumed
  /\ NoFetchFailure
  /\ NoWriteFailure

PageSizes == [i \in 1..NumPages |-> Len(pages[i - 1])]

SequentialFetches ==
  /\ \A i \in DOMAIN apiLog : apiLog[i].state = "inflight" => i = Len(apiLog)
  /\ (apiLog # <<>> /\ ~hist.resumed) => apiLog[1].cursor = Undefined
  /\ \A i \in 1..(Len(apiLog) - 1) :
       apiLog[i].state = "ok" =>
         /\ apiLog[i].next # Undefined
         /\ apiLog[i + 1].cursor = apiLog[i].next
  /\ FreshExportDone => Len(apiLog) = NumPages

\* a fresh run fetched two pages, the second by the cursor the first
\* fetch returned
SequentialFetchesWitness ==
  /\ FreshExportDone
  /\ Len(apiLog) = 2
  /\ apiLog[1].cursor = Undefined
  /\ apiLog[1].next = Token(1)
  /\ apiLog[2].cursor = Token(1)
  /\ apiLog[2].next = Undefined

\* ---------------------------------------------------------------------
\* Input reader: the CSV records, their sort key, the batches
\* ---------------------------------------------------------------------

\* the path of record id, as the file spells it: percent-encoded, with an
\* upper-case letter and a trailing slash, or already normal
PathOf(id) ==
  LET d == <<Digit(id \div 10), Digit(id % 10)>>
  IN IF id % 3 = 0 THEN <<"/", "%", "7", "0">> \o d
     ELSE IF id % 3 = 1 THEN <<"/", "P">> \o d \o <<"/">>
     ELSE <<"/", "p">> \o d

RECURSIVE decodeURI(_)
decodeURI(path) ==
  IF path = <<>> THEN <<>>
  ELSE IF Len(path) >= 3 /\ SubSeq(path, 1, 3) = <<"%", "7", "0">>
       THEN <<"p">> \o decodeURI(SubSeq(path, 4, Len(path)))
       ELSE <<Head(path)>> \o decodeURI(Tail(path))

toLower(path) == [i \in DOMAIN path |-> IF path[i] = "P" THEN "p" ELSE path[i]]

RECURSIVE StripTrailingSlashes(_)
StripTrailingSlashes(path) ==
  IF path # <<>> /\ path[Len(path)] = "/"
  THEN StripTrailingSlashes(SubSeq(path, 1, Len(path) - 1))
  ELSE path

normalizePath(path) == StripTrailingSlashes(toLower(decodeURI(path)))

\* the position of a normalised path's md5 digest among the digests of
\* the paths of the data set: a fixed scrambling of the record ids
Md5Rank(path) == ((10 * DigitVal(path[3]) + DigitVal(path[4])) * 7) % 23

sortFunction(redirect) == Md5Rank(normalizePath(redirect.from))

\* an insertion that puts x in front of the elements with its own key
RECURSIVE InsertByBefore(_, _)
InsertByBefore(x, sorted) ==
  IF sorted = <<>> THEN <<x>>
  ELSE IF sortFunction(Head(sorted)) < sortFunction(x)
       THEN <<Head(sorted)>> \o InsertByBefore(x, Tail(sorted))
       ELSE <<x>> \o sorted

\* ramda's sortBy is stable: x goes behind every element whose key is not
\* greater than its own
RECURSIVE InsertBy(_, _)
InsertBy(x, sorted) ==
  IF sorted = <<>> THEN <<x>>
  ELSE IF sortFunction(Head(sorted)) <= sortFunction(x)
       THEN <<Head(sorted)>> \o InsertBy(x, Tail(sorted))
       ELSE <<x>> \o sorted

RECURSIVE sortBy(_)
sortBy(list) ==
  IF list = <<>> THEN <<>>
  ELSE InsertBy(list[Len(list)], sortBy(SubSeq(list, 1, Len(list) - 1)))

readCSVUnsorted(file) == file

\* readCSV(path): the rows of the file, sorted
readCSV(file) == sortBy(file)

pluck(field, list) == [i \in DOMAIN list |-> list[i][field]]

splitJsonArrayFirst(data) ==
  IF data = <<>> THEN <<>>
  ELSE <<SubSeq(data, 1, Min(MAX_ENTRIES_PER_REQUEST, Len(data)))>>

splitJsonArrayNoTail(data) ==
  [b \in 1..(Len(data) \div MAX_ENTRIES_PER_REQUEST) |->
     SubSeq(data, (b - 1) * MAX_ENTRIES_PER_REQUEST + 1, b * MAX_ENTRIES_PER_REQUEST)]

\* splitJsonArray(data): jsonSplit cuts data into slices of
\* MAX_ENTRIES_PER_REQUEST entries, the last one shorter
splitJsonArray(data) ==
  [b \in 1..((Len(data) + MAX_ENTRIES_PER_REQUEST - 1) \div MAX_ENTRIES_PER_REQUEST) |->
     SubSeq(data, (b - 1) * MAX_ENTRIES_PER_REQUEST + 1,
            Min(b * MAX_ENTRIES_PER_REQUEST, Len(data)))]

\* the CSV file of a command: n records, in the order of their ids
CsvFile(n) == [i \in 1..n |-> [from |-> PathOf(i), to |-> <<"/", "t">>]]

\* what the remote system may hold before a reset: nothing, a key of the
\* file, or that key and two keys no file holds
RemoteChoices == {{}, {PathOf(1)}, {PathOf(1), PathOf(98), PathOf(99)}}

\* ---------------------------------------------------------------------
\* Import and delete: the batch flow and the reset before an import
\* ---------------------------------------------------------------------

fileHash == "h1"
scratchHash == "h2"

\* the remote keys that are not about to be imported
RoutesToDelete(remote, imported) == remote \ {imported[i] : i \in DOMAIN imported}

\* the scratch CSV of a reset: one row per key to delete
RECURSIVE ScratchRows(_)
ScratchRows(keys) ==
  IF keys = {} THEN <<>>
  ELSE LET k == CHOOSE x \in keys : TRUE
       IN <<[from |-> k]>> \o ScratchRows(keys \ {k})

\* the start of a batch job: the batches, and the first unprocessed batch
\* index the checkpoint of the file holds (0 without checkpoint)
BeginJob(type, hash, items, flow, m) ==
  LET c == IF HasEntry(m, type, hash) THEN m[type][hash].counter ELSE 0
  IN [type |-> type, hash |-> hash, items |-> items, batches |-> splitJsonArray(items),
      counter |-> c, start |-> c, flow |-> flow]

BeginImport(file, routes) ==
  /\ metainfo' = readJson(file)
  /\ job' = BeginJob(IMPORTS, fileHash, routes, "main", readJson(file))
  /\ ticks' = 0
  /\ ipc' = "running"

\* the import command: read the file; with --reset, delete the remote keys
\* the file does not hold before the import begins
ImportStart ==
  /\ ipc = "idle"
  /\ input.mode = "import"
  /\ records' = readCSV(CsvFile(input.n))
  /\ LET old == RoutesToDelete(input.remote, pluck("from", records'))
     IN IF input.reset /\ old # {}
        THEN /\ scratch' = "written"
             /\ metainfo' = readJson(disk)
             /\ job' = BeginJob(DELETES, scratchHash, pluck("from", readCSV(ScratchRows(old))),
                                "reset", readJson(disk))
             /\ ticks' = 0
             /\ ipc' = "running"
        ELSE /\ BeginImport(disk, records')
             /\ UNCHANGED scratch
  /\ UNCHANGED <<input, sent, returned, ierror, disk, lastOp, pages, uvars, qvars, evars>>

\* the delete command: the keys of the file, in batches
DeleteStart ==
  /\ ipc = "idle"
  /\ input.mode = "delete"
  /\ records' = readCSV(CsvFile(input.n))
  /\ metainfo' = readJson(disk)
  /\ job' = BeginJob(DELETES, fileHash, pluck("from", records'), "main", readJson(disk))
  /\ ticks' = 0
  /\ ipc' = "running"
  /\ UNCHANGED <<input, sent, returned, scratch, ierror, disk, lastOp, pages, uvars, qvars, evars>>

Call(ok) ==
  [run |-> input.run, flow |-> job.flow, type |-> job.type, index |-> job.counter,
   items |-> job.batches[job.counter + 1], ok |-> ok]

\* the remote operation accepts the next batch: the progress bar ticks and
\* the checkpoint is saved with the new batch index
BatchOk ==
  /\ ipc = "running"
  /\ job.counter < Len(job.batches)
  /\ sent' = Append(sent, Call(TRUE))
  /\ job' = [job EXCEPT !.counter = job.counter + 1]
  /\ ticks' = ticks + 1
  /\ LET r == saveMetainfo(metainfo, job.type, job.hash, job.counter + 1, EmptyObj)
     IN /\ metainfo' = r.mem
        /\ disk' = r.file
  /\ UNCHANGED <<input, records, ipc, returned, scratch, ierror, lastOp, pages, uvars, qvars, evars>>

\* the remote operation fails: the checkpoint is saved with the index of
\* the batch that failed and the error is thrown
BatchFail ==
  /\ ipc = "running"
  /\ job.counter < Len(job.batches)
  /\ faults > 0
  /\ faults' = faults - 1
  /\ sent' = Append(sent, Call(FALSE))
  /\ LET r == saveMetainfo(metainfo, job.type, job.hash, job.counter, EmptyObj)
     IN /\ metainfo' = r.mem
        /\ disk' = r.file
  /\ ierror' = [flow |-> job.flow, index |-> job.counter]
  /\ ipc' = "failed"
  /\ UNCHANGED <<input, records, job, ticks, returned, scratch, lastOp, pages, uvars, qfields, evars>>

\* no batch is left: the checkpoint is cleared; the delete of a reset
\* removes the scratch file and the import begins, an import returns the
\* keys of its records
JobDone ==
  /\ ipc = "running"
  /\ job.counter >= Len(job.batches)
  /\ LET r == deleteMetainfo(metainfo, disk, job.type, job.hash)
     IN /\ disk' = r.file
        /\ IF job.flow = "reset"
           THEN /\ scratch' = "removed"
                /\ BeginImport(r.file, records)
                /\ UNCHANGED returned
           ELSE /\ metainfo' = r.mem
                /\ ipc' = "done"
                /\ returned' = IF job.type = IMPORTS THEN pluck("from", records) ELSE <<>>
                /\ UNCHANGED <<job, ticks, scratch>>
  /\ UNCHANGED <<input, records, sent, ierror, lastOp, pages, uvars, qvars, evars>>

\* the command is run again after a failure
Rerun ==
  /\ ipc = "failed"
  /\ input.run < MaxRuns
  /\ input' = [input EXCEPT !.run = input.run + 1]
  /\ ipc' = "idle"
  /\ ticks' = 0
  /\ ierror' = NoError
  /\ scratch' = "absent"
  /\ UNCHANGED <<records, job, sent, returned, mvars, pages, uvars, qvars, evars>>

\* the checkpoint file a command may find: none, or one that holds batch
\* index k for the file and an entry of another file
CheckpointAt(k) ==
  IF k < 0 THEN Missing
  ELSE saveMetainfo(saveMetainfo(saveMetainfo(EmptyObj, IMPORTS, fileHash, k, EmptyObj).mem,
                                 DELETES, fileHash, k, EmptyObj).mem,
                    IMPORTS, "h3", 1, EmptyObj).file

InitI ==
  /\ input \in {i \in [mode : {"import", "delete"}, reset : BOOLEAN, n : 0..MaxRecords,
                       remote : RemoteChoices, k : -1..MaxCounter, run : {1}] :
                  /\ i.reset => i.mode = "import"
                  /\ i.remote # {} => i.reset}
  /\ disk = CheckpointAt(input.k)
  /\ metainfo = EmptyObj
  /\ lastOp = NoOp
  /\ records = <<>>
  /\ ipc = "idle"
  /\ job = [flow |-> "none"]
  /\ sent = <<>>
  /\ ticks = 0
  /\ returned = <<>>
  /\ scratch = "absent"
  /\ ierror = NoError
  /\ faults = MaxFaults
  /\ QueueIdle
  /\ EngineIdle
  /\ UtilsIdle

NextI == ImportStart \/ DeleteStart \/ BatchOk \/ BatchFail \/ JobDone \/ Rerun

SpecI == InitI /\ [][NextI]_vars

\* ---------------------------------------------------------------------
\* Import and delete: properties
\* ---------------------------------------------------------------------

\* the remote calls of a flow in the current run of the command
RunSent(flow) == SelectSeq(sent, LAMBDA c : c.run = input.run /\ c.flow = flow)

\* the batch index the checkpoint of the file holds when the current run
\* starts: the index an earlier run failed at, else the one found at first
CheckpointIndex ==
  LET failed == SelectSeq(sent, LAMBDA c : c.run < input.run /\ c.flow = "main" /\ ~c.ok)
  IN IF failed # <<>> THEN failed[Len(failed)].index
     ELSE IF input.k < 0 THEN 0 ELSE input.k

\* the sorted records of an import, the sorted keys of a delete
MainItems ==
  IF input.mode = "import" THEN readCSV(CsvFile(input.n))
  ELSE pluck("from", readCSV(CsvFile(input.n)))

NumBatches == (input.n + MAX_ENTRIES_PER_REQUEST - 1) \div MAX_ENTRIES_PER_REQUEST

ExpectedBatch(k) ==
  SubSeq(MainItems, k * MAX_ENTRIES_PER_REQUEST + 1,
         Min((k + 1) * MAX_ENTRIES_PER_REQUEST, input.n))

InMainFlow == ipc \in {"running", "done", "failed"} /\ job.flow = "main"

\* C6: with a checkpoint that holds batch index K and a record set of N
\* batches, an import or delete sends batches K, K+1, ... in that order,
\* one remote call each, every one of them a batch below N with the records
\* of that position, and a run that completes has sent all of K..N-1.
ResumeBatches ==
  InMainFlow =>
    LET S == RunSent("main")
    IN /\ \A i \in DOMAIN S :
            /\ S[i].index = CheckpointIndex + i - 1
            /\ S[i].index < NumBatches
            /\ S[i].items = ExpectedBatch(S[i].index)
            /\ S[i].type = IF input.mode = "import" THEN IMPORTS ELSE DELETES
       /\ ipc = "done" =>
            Len(S) = IF CheckpointIndex < NumBatches THEN NumBatches - CheckpointIndex ELSE 0

\* an import of three batches found batch index 1 and sent batches 1 and 2
ResumeBatchesWitness ==
  /\ ipc = "done"
  /\ input.mode = "import"
  /\ input.run = 1
  /\ input.k = 1
  /\ NumBatches = 3
  /\ Len(RunSent("main")) = 2
  /\ RunSent("main")[1].index = 1
  /\ RunSent("main")[2].index = 2

\* C7: when the remote operation fails at batch i, the failed call is the
\* last one sent, every earlier call of the run succeeded, the progress bar
\* has ticked once per batch completed in the run, the checkpoint file
\* holds index i for the operation and the file, and the error is thrown.
FailureCheckpoint ==
  /\ \A j \in 1..(Len(sent) - 1) : ~sent[j].ok => sent[j + 1].run > sent[j].run
  /\ ipc = "failed" =>
       LET S == RunSent(job.flow)
           i == ierror.index
           m == readJson(disk)
       IN /\ ierror.flow = job.flow
          /\ S # <<>>
          /\ sent[Len(sent)] = S[Len(S)]
          /\ S[Len(S)].index = i
          /\ ~S[Len(S)].ok
          /\ \A j \in 1..(Len(S) - 1) : S[j].ok /\ S[j].index < i
          /\ ticks = Len(S) - 1
          /\ ticks = i - job.start
          /\ HasEntry(m, job.type, job.hash)
          /\ m[job.type][job.hash].counter = i

\* an import failed at its third batch after two batches went through
FailureCheckpointWitness ==
  /\ ipc = "failed"
  /\ input.mode = "import"
  /\ job.flow = "main"
  /\ job.start = 0
  /\ ierror.index = 2
  /\ ticks = 2

\* C8: an import that completes leaves no checkpoint for the file, in the
\* object and in the checkpoint file, and returns the 'from' key of every
\* record of the file, in the order of the sort key.
ImportReturnsKeys ==
  (ipc = "done" /\ input.mode = "import") =>
    /\ ~HasEntry(metainfo, IMPORTS, fileHash)
    /\ ~HasEntry(readJson(disk), IMPORTS, fileHash)
    /\ Len(returned) = input.n
    /\ {returned[i] : i \in DOMAIN returned} = {PathOf(i) : i \in 1..input.n}
    /\ \A i, j \in DOMAIN returned :
         i < j => Md5Rank(normalizePath(returned[i])) <= Md5Rank(normalizePath(returned[j]))

\* a resumed import of more than one batch completed; the file was not in
\* processing order
ImportReturnsKeysWitness ==
  /\ ipc = "done"
  /\ input.mode = "import"
  /\ input.k = 1
  /\ input.n > MAX_ENTRIES_PER_REQUEST
  /\ returned # pluck("from", CsvFile(input.n))
  /\ RunSent("main") # <<>>

OldRoutes == {k \in input.remote : \A i \in 1..input.n : PathOf(i) # k}

\* C10: in an import with --reset the delete flow runs, on a scratch file,
\* exactly when some remote key is not about to be imported; every call of
\* it precedes the first import batch, which is sent only when every such
\* key was sent for deletion and the scratch file is removed; when the
\* delete flow fails, the error is thrown and no import batch is sent.
ResetBeforeImport ==
  (input.mode = "import" /\ ipc \in {"running", "done", "failed"}) =>
    LET R == RunSent("reset")
        M == RunSent("main")
    IN /\ (scratch # "absent") <=> (input.reset /\ OldRoutes # {})
       /\ R # <<>> => scratch # "absent"
       /\ \A i, j \in DOMAIN sent :
            (sent[i].run = sent[j].run /\ sent[i].flow = "main" /\ sent[j].flow = "reset") => j < i
       /\ (scratch = "removed") <=> (scratch # "absent" /\ job.flow = "main")
       /\ (M # <<>> \/ ipc = "done") => scratch \in {"absent", "removed"}
       /\ scratch = "removed" =>
            /\ \A i \in DOMAIN R : R[i].ok /\ R[i].type = DELETES
            /\ UNION {{R[i].items[x] : x \in DOMAIN R[i].items} : i \in DOMAIN R} = OldRoutes
       /\ (ipc = "failed" /\ job.flow = "reset") =>
            /\ ierror.flow = "reset"
            /\ M = <<>>

\* the import began after the delete flow had sent two old keys and the
\* scratch file was removed
ResetBeforeImportWitness ==
  /\ input.reset
  /\ ipc = "done"
  /\ scratch = "removed"
  /\ Cardinality(OldRoutes) = 2
  /\ sent[1].flow = "reset"
  /\ Len(sent) > 1
  /\ sent[Len(sent)].flow = "main"

\* ---------------------------------------------------------------------
\* Export: errors, interrupt, resume, timeout
\* ---------------------------------------------------------------------

\* the checkpoint entry of the export in a metainfo object
ExportEntry(m) == m[EXPORTS][indexHash]

\* { next, routeCount } as JSON keeps it
ProgressData(cursor, count) == StripUndefined([next |-> cursor, routeCount |-> count])

\* C11: when an unrecoverable error leaves the fetch loop (its catch block
\* has closed the listener and thrown), the checkpoint file holds the
\* cursor last advanced to and the row count.
ExportErrorCheckpoint ==
  (pc = "threw" /\ ~listenerOpen) =>
    /\ HasEntry(readJson(disk), EXPORTS, indexHash)
    /\ ExportEntry(readJson(disk)).data = ProgressData(next, routeCount)

\* C12: the step in which the SIGINT listener runs leaves the cursor and the
\* row count of that moment in the checkpoint object and file, ends the
\* output stream and exits; no call of exportRedirects is issued in that
\* step or after it.
InterruptCheckpoint ==
  [][/\ (pc # "exited" /\ pc' = "exited" /\ exitCode' = 0) =>
          /\ HasEntry(readJson(disk'), EXPORTS, indexHash)
          /\ ExportEntry(readJson(disk')).data = ProgressData(next, routeCount)
          /\ HasEntry(metainfo', EXPORTS, indexHash)
          /\ ExportEntry(metainfo').data = [next |-> next, routeCount |-> routeCount]
          /\ streamEnded'
          /\ apiLog' = apiLog
     /\ pc = "exited" => (pc' = "exited" /\ apiLog' = apiLog)]_vars

\* the export was interrupted while the fetch of the second page was in
\* flight; the checkpoint holds the cursor of that page
InterruptCheckpointWitness ==
  /\ pc = "exited"
  /\ exitCode = 0
  /\ routeCount > 0
  /\ next = Token(1)
  /\ LastCall.state = "inflight"
  /\ HasEntry(readJson(disk), EXPORTS, indexHash)
  /\ ExportEntry(readJson(disk)).data = [next |-> Token(1), routeCount |-> routeCount]

\* C13: an invocation of the export either starts at what the checkpoint of
\* the file holds (first fetch with the saved cursor, row count at the saved
\* count, checkpoint untouched), or, when progress was saved and resuming
\* is declined, clears the entry and starts without cursor at row count 0.
ResumeOrFresh ==
  [][hist'.runs > hist.runs =>
       LET m == readJson(disk)
           has == HasEntry(m, EXPORTS, indexHash)
           savedNext == IF has /\ "next" \in DOMAIN ExportEntry(m).data
                        THEN ExportEntry(m).data.next ELSE Undefined
           savedCount == IF has /\ "routeCount" \in DOMAIN ExportEntry(m).data
                         THEN ExportEntry(m).data.routeCount ELSE 0
       IN /\ Len(apiLog') = 1
          /\ \/ /\ apiLog'[1].cursor = savedNext
                /\ next' = savedNext
                /\ routeCount' = savedCount
                /\ disk' = disk
             \/ /\ has
                /\ savedCount > 0 \/ savedNext # Undefined
                /\ ~HasEntry(readJson(disk'), EXPORTS, indexHash)
                /\ ~HasEntry(metainfo', EXPORTS, indexHash)
                /\ apiLog'[1].cursor = Undefined
                /\ next' = Undefined
                /\ routeCount' = 0]_vars

\* a first invocation resumed: its first fetch carries the saved cursor
ResumeOrFreshWitness ==
  /\ hist.runs = 1
  /\ hist.resumed
  /\ apiLog = <<[cursor |-> Token(1), state |-> "inflight", next |-> Undefined]>>
  /\ routeCount = Len(pages[0])
  /\ routeCount > 0

\* C14: the step in which the 60 second timer wins clears the cursor and
\* the row count and issues a fetch without cursor.
TimeoutRestartsPagination ==
  [][hist'.timeouts > hist.timeouts =>
       /\ next' = Undefined
       /\ routeCount' = 0
       /\ pc' = "fetching"
       /\ apiLog'[Len(apiLog')] = [cursor |-> Undefined, state |-> "inflight", next |-> Undefined]]_vars

\* the errors of ApiErrors that are a client_error or unknown
NonRetryable == {ApiError(404, ""), ApiError(0, "")}

RECURSIVE Decimal(_)
Decimal(n) == IF n < 10 THEN <<Digit(n)>> ELSE Decimal(n \div 10) \o <<Digit(n % 10)>>

\* the statuses tried: none (0), and the edges of the classes
StatusValues == {0, 200, 399, 400, 404, 428, 429, 430, 499, 500, 503, 599, 600}

ErrorCodes == {"", "ECONNRESET", "ETIMEDOUT", "ENOTFOUND", "EPIPE"}

StatusPlaces == {"status", "response", "statusCode"}

\* the Retry-After values tried: none, seconds, an HTTP date
RetryAfterCases ==
  {[form |-> "none"]}
    \cup [form : {"seconds"}, s : {0, 1, 5, 12, 120}]
    \cup [form : {"date"}, ahead : {-3000, 0, 3000}]

\* the text of the header of such a case
RetryAfterText(c) ==
  IF c.form = "none" THEN <<>>
  ELSE IF c.form = "seconds" THEN Decimal(c.s)
  ELSE IF c.ahead >= 0 THEN <<"D">> \o Decimal(c.ahead)
  ELSE <<"P">> \o Decimal(0 - c.ahead)

\* the errors handed to classifyError, described by what they carry
ErrorCases ==
  {[kind |-> "null"]}
    \cup [kind : {"status"}, place : StatusPlaces, status : StatusValues, code : ErrorCodes]
    \cup [kind : {"rate"}, place : StatusPlaces, holder : {"error", "response"},
          name : {"retry-after", "Retry-After"}, retryAfter : RetryAfterCases]

\* an error object with the status in the given place
StatusError(place, status, code) ==
  LET base == [source |-> "api", code |-> code, message |-> "api error"]
  IN IF status = 0 THEN base
     ELSE IF place = "response" THEN Put(base, "response", [status |-> status])
     ELSE Put(base, place, status)

\* the error object of a case
ErrorOf(c) ==
  IF c.kind = "null" THEN NullError
  ELSE IF c.kind = "status" THEN StatusError(c.place, c.status, c.code)
  ELSE LET e == StatusError(c.place, 429, "")
           headers == IF c.retryAfter.form = "none" THEN EmptyObj
                      ELSE Put(EmptyObj, c.name, RetryAfterText(c.retryAfter))
       IN IF c.holder = "error" THEN Put(e, "headers", headers)
          ELSE Put(e, "response", Put(IF "response" \in DOMAIN e THEN e.response ELSE EmptyObj,
                                      "headers", headers))

\* Math.random(), in tenths
RandomDen == 10
Randoms == {0, 9}

\* the delays tried are multiples of 100 ms, which keeps the tenth of a
\* delay times a random tenth a whole number of milliseconds
BaseDelays == {100, 1000}
MaxDelays == {1500, 30000}

calculateBackoffDelayUncapped(a, baseDelay, maxDelay, random) ==
  LET exponentialDelay == baseDelay * 2^(a - 1)
      jitter == (exponentialDelay * random) \div (10 * RandomDen)
  IN exponentialDelay + jitter

\* calculateBackoffDelay(attempt, baseDelay, maxDelay) for attempt a where
\* Math.random() gives random / RandomDen
calculateBackoffDelay(a, baseDelay, maxDelay, random) ==
  LET exponentialDelay == baseDelay * 2^(a - 1)
      jitter == (exponentialDelay * random) \div (10 * RandomDen)
  IN Min(exponentialDelay + jitter, maxDelay)

\* the delay sleepWithJitter(baseDelay) sleeps where Math.random() gives
\* random / RandomDen: Math.floor(baseDelay + baseDelay * 0.1 * random)
sleepWithJitter(baseDelay, random) ==
  (baseDelay * 10 * RandomDen + baseDelay * random) \div (10 * RandomDen)

\* the strings of at most n characters handed to encode
TextChars == {"a", "%", DELIMITER}
Texts(n) == UNION {[1..k -> TextChars] : k \in 0..n}

CallClassifyError ==
  /\ \E c \in ErrorCases :
       util' = [fn |-> "classifyError", given |-> c, error |-> ErrorOf(c),
                result |-> classifyError(ErrorOf(c))]
  /\ UNCHANGED <<pages, qvars, mvars, evars, ivars, retry, proc>>

CallCalculateBackoffDelay ==
  /\ \E a \in 1..MaxAttempt, baseDelay \in BaseDelays, maxDelay \in MaxDelays, random \in Randoms :
       util' = [fn |-> "calculateBackoffDelay", attempt |-> a, baseDelay |-> baseDelay,
                maxDelay |-> maxDelay, random |-> random,
                result |-> calculateBackoffDelay(a, baseDelay, maxDelay, random),
                following |-> calculateBackoffDelay(a + 1, baseDelay, maxDelay, random)]
  /\ UNCHANGED <<pages, qvars, mvars, evars, ivars, retry, proc>>

CallEncode ==
  /\ \E x \in Texts(MaxTextLen) :
       util' = [fn |-> "encode", x |-> x, result |-> encode(x)]
  /\ UNCHANGED <<pages, qvars, mvars, evars, ivars, retry, proc>>

\* the rows csvtojson parses from the files read: three spellings of one
\* path and two other paths
ReadRecords ==
  {[from |-> path, to |-> <<"/", "t">>] :
     path \in {<<"/", "p", "0", "1">>, <<"/", "P", "0", "1", "/">>, <<"/", "%", "7", "0", "0", "1">>,
               <<"/", "p", "0", "2">>, <<"/", "p", "0", "5">>}}

ReadFiles(n) == UNION {[1..k -> ReadRecords] : k \in 0..n}

\* readCSV(path), the first call of a command, made twice on one file
CallReadCSV ==
  /\ util.fn = "none"
  /\ \E file \in ReadFiles(MaxFileLen) :
       util' = [fn |-> "readCSV", file |-> file, result |-> readCSV(file), again |-> readCSV(file)]
  /\ UNCHANGED <<pages, qvars, mvars, evars, ivars, retry, proc>>

InitU ==
  /\ util = [fn |-> "none"]
  /\ retry = [pc |-> "off"]
  /\ proc = [pc |-> "off"]
  /\ faults = 0
  /\ StoreIdle
  /\ QueueIdle
  /\ EngineIdle
  /\ ImportIdle

NextU == CallClassifyError \/ CallCalculateBackoffDelay \/ CallEncode \/ CallReadCSV

SpecU == InitU /\ [][NextU]_vars

\* the Retry-After of a case in milliseconds: s seconds, or the time to the
\* date when it lies ahead
ExpectedRetryAfter(c) ==
  IF c.form = "seconds" THEN 1000 * c.s
  ELSE IF c.form = "date" /\ c.ahead > 0 THEN c.ahead
  ELSE 0

\* C15: classifyError answers for every input: status 429 is rate_limit,
\* retryable, with the Retry-After header parsed; 500..599 is server_error,
\* retryable; another 400..499 is client_error, not retryable; no such
\* status and code ECONNRESET, ETIMEDOUT or ENOTFOUND is network_error,
\* retryable; everything else, null included, is unknown, not retryable.
ClassifyErrorTotal ==
  util.fn = "classifyError" =>
    LET c == util.given
        r == util.result
    IN IF c.kind = "null" THEN r = [type |-> "unknown", retryable |-> FALSE]
       ELSE IF c.kind = "rate"
            THEN r = [type |-> "rate_limit", retryable |-> TRUE,
                      retryAfter |-> ExpectedRetryAfter(c.retryAfter)]
       ELSE IF c.status = 429
            THEN r = [type |-> "rate_limit", retryable |-> TRUE, retryAfter |-> 0]
       ELSE IF c.status \in 500..599 THEN r = [type |-> "server_error", retryable |-> TRUE]
       ELSE IF c.status \in 400..499 THEN r = [type |-> "client_error", retryable |-> FALSE]
       ELSE IF c.code \in {"ECONNRESET", "ETIMEDOUT", "ENOTFOUND"}
            THEN r = [type |-> "network_error", retryable |-> TRUE]
       ELSE r = [type |-> "unknown", retryable |-> FALSE]

\* a 429 whose response carries Retry-After: 12 was classified
ClassifyErrorTotalWitness ==
  /\ util.fn = "classifyError"
  /\ util.given.kind = "rate"
  /\ util.given.holder = "response"
  /\ util.given.retryAfter = [form |-> "seconds", s |-> 12]
  /\ util.result.type = "rate_limit"
  /\ util.result.retryAfter = 12000

\* C19: for attempt >= 1 and positive delays the backoff delay is at most
\* maxDelay, and with the jitter excluded the delay of attempt + 1 is at
\* least the delay of attempt.
BackoffBounded ==
  util.fn = "calculateBackoffDelay" =>
    /\ util.result <= util.maxDelay
    /\ util.following <= util.maxDelay
    /\ util.random = 0 => util.following >= util.result

\* without jitter the delay grew from attempt 1 to attempt 2 and met the cap
BackoffBoundedWitness ==
  /\ util.fn = "calculateBackoffDelay"
  /\ util.random = 0
  /\ util.attempt = 1
  /\ util.result < util.following
  /\ util.following = util.maxDelay

\* C20: the result of encode holds no delimiter, and is the argument when
\* the argument holds none.
EncodeRemovesDelimiters ==
  util.fn = "encode" =>
    /\ \A i \in DOMAIN util.result : util.result[i] # DELIMITER
    /\ (\A i \in DOMAIN util.x : util.x[i] # DELIMITER) => util.result = util.x

\* the normalised form of the paths of ReadRecords: lower case, percent
\* escapes decoded, no trailing slash
NormalOf(path) ==
  IF path \in {<<"/", "P", "0", "1", "/">>, <<"/", "%", "7", "0", "0", "1">>}
  THEN <<"/", "p", "0", "1">>
  ELSE path

\* C24: the sequence readCSV returns is a permutation of the parsed records
\* in ascending order of the hash of their normalised from, records of equal
\* hash in their input order, and a second call returns the same sequence.
ReadCsvSortedStable ==
  util.fn = "readCSV" =>
    LET n == Len(util.file)
        key(i) == Md5Rank(NormalOf(util.result[i].from))
    IN /\ Len(util.result) = n
       /\ \E f \in Permutations(1..n) :
            /\ \A i \in 1..n : util.result[i] = util.file[f[i]]
            /\ \A i, j \in 1..n :
                 i < j => key(i) <= key(j) /\ (key(i) = key(j) => f[i] < f[j])
       /\ util.again = util.result

\* /p02 is moved behind the two spellings of /p01, which keep their order
ReadCsvSortedStableWitness ==
  /\ util.fn = "readCSV"
  /\ Len(util.file) = 3
  /\ util.file[1].from = <<"/", "p", "0", "2">>
  /\ util.file[2].from = <<"/", "P", "0", "1", "/">>
  /\ util.file[3].from = <<"/", "%", "7", "0", "0", "1">>
  /\ util.result = <<util.file[2], util.file[3], util.file[1]>>

\* ---------------------------------------------------------------------
\* retryWithBackoff around one operation
\* ---------------------------------------------------------------------

\* a 429 whose headers carry the given retry-after text (none when empty)
RateLimited(text) ==
  Put(ApiError(429, ""), "headers", IF text = <<>> THEN EmptyObj ELSE Put(EmptyObj, "retry-after", text))

\* what the operation may reject with
RetryErrors ==
  {ApiError(500, ""), ApiError(404, ""), ApiError(0, "ECONNRESET"),
   RateLimited(<<>>), RateLimited(<<"0">>), RateLimited(<<"2">>)}

\* { ...DEFAULT_RETRY_CONFIG, maxRetries }, also with a smaller maxDelay
RetryConfigs == [maxRetries : 0..MaxRetryBudget, baseDelay : {1000}, maxDelay : MaxDelays]

RetriesExhaustedEarly(n, retryConfig) == n >= retryConfig.maxRetries

\* attempt > retryConfig.maxRetries
RetriesExhausted(n, retryConfig) == n > retryConfig.maxRetries

\* while (attempt <= retryConfig.maxRetries): the operation is invoked, or
\* the loop ends and lastError is thrown
Invoke ==
  /\ retry.pc = "loop"
  /\ IF retry.attempt <= retry.retryConfig.maxRetries
     THEN retry' = [retry EXCEPT !.pc = "awaiting", !.calls = @ + 1]
     ELSE retry' = [retry EXCEPT !.pc = "threw", !.thrown = retry.lastError]
  /\ UNCHANGED <<pages, qvars, mvars, evars, ivars, util, proc>>

\* return await operation()
OperationOk ==
  /\ retry.pc = "awaiting"
  /\ retry' = [retry EXCEPT !.pc = "returned"]
  /\ UNCHANGED <<pages, qvars, mvars, evars, ivars, util, proc>>

\* the catch block, up to the call of sleep
OperationFails ==
  /\ retry.pc = "awaiting"
  /\ \E error \in RetryErrors, random \in Randoms, sleepRandom \in Randoms :
       LET n == retry.attempt + 1
           errorInfo == classifyError(error)
           caught == [retry EXCEPT !.lastError = error, !.attempt = n, !.errors = Append(@, error)]
           delay == IF errorInfo.type = "rate_limit" /\ errorInfo.retryAfter # 0
                    THEN errorInfo.retryAfter
                    ELSE calculateBackoffDelay(n, retry.retryConfig.baseDelay,
                                               retry.retryConfig.maxDelay, random)
       IN IF ~errorInfo.retryable
          THEN retry' = [caught EXCEPT !.pc = "threw", !.thrown = error]
          ELSE IF RetriesExhausted(n, retry.retryConfig)
          THEN retry' = [caught EXCEPT !.pc = "threw", !.thrown = caught.lastError]
          ELSE retry' = [caught EXCEPT !.pc = "sleeping",
                                       !.sleeps = Append(@, [attempt |-> n, error |-> error,
                                                             delay |-> delay,
                                                             slept |-> sleepWithJitter(delay, sleepRandom)])]
  /\ UNCHANGED <<pages, qvars, mvars, evars, ivars, util, proc>>

\* the sleep is over
SleepDone ==
  /\ retry.pc = "sleeping"
  /\ retry' = [retry EXCEPT !.pc = "loop"]
  /\ UNCHANGED <<pages, qvars, mvars, evars, ivars, util, proc>>

InitR ==
  /\ \E retryConfig \in RetryConfigs :
       retry = [pc |-> "loop", retryConfig |-> retryConfig, attempt |-> 0, lastError |-> NullError,
                calls |-> 0, errors |-> <<>>, sleeps |-> <<>>, thrown |-> NullError]
  /\ util = [fn |-> "none"]
  /\ proc = [pc |-> "off"]
  /\ faults = 0
  /\ StoreIdle
  /\ QueueIdle
  /\ EngineIdle
  /\ ImportIdle

NextR == Invoke \/ OperationOk \/ OperationFails \/ SleepDone

SpecR == InitR /\ [][NextR]_vars

\* the errors of RetryErrors that are a rate_limit, server_error or network_error
RetryableErrors == RetryErrors \ {ApiError(404, "")}

\* C16: the operation is invoked at most maxRetries + 1 times; a success
\* ends the call with no further invocation; when every attempt failed with
\* a retryable error, that took maxRetries + 1 invocations and the error of
\* the last one is thrown as it is.
RetryBounded ==
  /\ retry.calls <= retry.retryConfig.maxRetries + 1
  /\ retry.pc = "returned" => retry.calls = Len(retry.errors) + 1
  /\ (retry.pc = "threw" /\ \A i \in DOMAIN retry.errors : retry.errors[i] \in RetryableErrors) =>
       /\ retry.calls = retry.retryConfig.maxRetries + 1
       /\ Len(retry.errors) = retry.calls
       /\ retry.thrown = retry.errors[Len(retry.errors)]

\* three attempts failed with retryable errors and the last one was thrown
RetryBoundedWitness ==
  /\ retry.pc = "threw"
  /\ retry.retryConfig.maxRetries = 2
  /\ retry.calls = 3
  /\ retry.errors = <<ApiError(500, ""), RateLimited(<<"2">>), ApiError(0, "ECONNRESET")>>
  /\ retry.thrown = ApiError(0, "ECONNRESET")

\* C18: after a 429 carrying a Retry-After of s seconds the wait before the
\* next attempt is s seconds, whatever the attempt.
RetryAfterVerbatim ==
  \A i \in DOMAIN retry.sleeps : \A s \in {0, 2} :
    retry.sleeps[i].error = RateLimited(Decimal(s)) => retry.sleeps[i].slept = 1000 * s

\* ---------------------------------------------- the process around a command
\* The exported function of the export module in its two versions, with
\* handleExport as an operation that returns or throws, and the two helpers
\* of utils that end the process: handleReadError and validateInput.

\* process.exit(code): without an argument the status is process.exitCode,
\* which nothing sets, so the process ends with status 0
NoCode == -1
processExit(code) == IF code = NoCode THEN 0 ELSE code

Programs == {"exportV2", "exportV3", "readCSV", "validateInput"}

\* what handleExport can throw: API errors of each class, a rate limit, and
\* the errors of writePageToFile
WrapperErrors ==
  {ApiError(500, ""), ApiError(404, ""), ApiError(0, "ECONNRESET"), RateLimited(<<"2">>),
   WriteError("ENOSPC"), WriteError("EMFILE")}

\* the inputs of validateInput: per record, whether it fits the schema
RouteFits == {<<TRUE>>, <<TRUE, TRUE>>, <<FALSE>>, <<TRUE, FALSE>>}

ProcStart(program) ==
  [pc |-> "start", program |-> program, retryCount |-> 0, calls |-> 0, error |-> NullError,
   reported |-> FALSE, status |-> NoCode]

\* the exported function is called: await handleExport(csvPath)
CallHandleExport ==
  /\ proc.pc = "start"
  /\ proc.program \in {"exportV2", "exportV3"}
  /\ proc' = [proc EXCEPT !.pc = "running", !.calls = 1]
  /\ UNCHANGED <<pages, qvars, mvars, evars, ivars, retry, util>>

\* handleExport resolves: the exported function returns
HandleExportReturns ==
  /\ proc.pc = "running"
  /\ proc' = [proc EXCEPT !.pc = "returned"]
  /\ UNCHANGED <<pages, qvars, mvars, evars, ivars, retry, util>>

\* the catch of redirectsExportFunc, the exported function of the older
\* module: every error is retried until retryCount reaches MAX_RETRIES
CatchV2(e) ==
  IF proc.retryCount >= MAX_RETRIES
  THEN proc' = [proc EXCEPT !.pc = "exited", !.error = e, !.reported = TRUE,
                            !.status = processExit(NoCode)]
  ELSE proc' = [proc EXCEPT !.pc = "sleeping", !.error = e, !.reported = TRUE]

\* the catch of the exported function of the newer module
CatchV3(e) ==
  IF \/ IsFileSystemMessage(e.message)
     \/ ~classifyError(e).retryable
     \/ proc.retryCount >= MAX_RETRIES
  THEN proc' = [proc EXCEPT !.pc = "exited", !.error = e, !.reported = TRUE,
                            !.status = processExit(1)]
  ELSE proc' = [proc EXCEPT !.pc = "sleeping", !.error = e, !.reported = TRUE]

\* handleExport throws e
HandleExportThrows ==
  /\ proc.pc = "running"
  /\ \E e \in WrapperErrors :
       IF proc.program = "exportV2" THEN CatchV2(e) ELSE CatchV3(e)
  /\ UNCHANGED <<pages, qvars, mvars, evars, ivars, retry, util>>

\* the sleep ends: retryCount++ and the exported function calls itself
Reinvoke ==
  /\ proc.pc = "sleeping"
  /\ proc' = [proc EXCEPT !.pc = "running", !.retryCount = @ + 1, !.calls = @ + 1]
  /\ UNCHANGED <<pages, qvars, mvars, evars, ivars, retry, util>>

\* readCSV: csv().fromFile(path) resolves and the records are returned, or it
\* rejects and handleReadError(path)(e) logs the error and ends the process
ReadCsvFile ==
  /\ proc.pc = "start"
  /\ proc.program = "readCSV"
  /\ \/ proc' = [proc EXCEPT !.pc = "returned"]
     \/ proc' = [proc EXCEPT !.pc = "exited", !.error = [source |-> "read", message |-> "ENOENT"],
                             !.reported = TRUE, !.status = processExit(NoCode)]
  /\ UNCHANGED <<pages, qvars, mvars, evars, ivars, retry, util>>

\* validateInput(schema, routes): returns when every record fits the schema,
\* otherwise prints the errors and ends the process
ValidateInput ==
  /\ proc.pc = "start"
  /\ proc.program = "validateInput"
  /\ \E fits \in RouteFits :
       IF \A i \in DOMAIN fits : fits[i]
       THEN proc' = [proc EXCEPT !.pc = "returned"]
       ELSE proc' = [proc EXCEPT !.pc = "exited",
                                 !.error = [source |-> "validation", message |-> "invalid input"],
                                 !.reported = TRUE, !.status = processExit(NoCode)]
  /\ UNCHANGED <<pages, qvars, mvars, evars, ivars, retry, util>>

InitW ==
  /\ proc \in {ProcStart(program) : program \in Programs}
  /\ retry = [pc |-> "off"]
  /\ util = [fn |-> "none"]
  /\ faults = 0
  /\ StoreIdle
  /\ QueueIdle
  /\ EngineIdle
  /\ ImportIdle

NextW ==
  \/ CallHandleExport
  \/ HandleExportReturns
  \/ HandleExportThrows
  \/ Reinvoke
  \/ ReadCsvFile
  \/ ValidateInput

SpecW == InitW /\ [][NextW]_vars

\* C21: the export is invoked again at most MAX_RETRIES times, and the
\* failure that finds the counter at MAX_RETRIES ends the process with a
\* failure status after the error was reported.
RestartBounded ==
  (proc.program \in {"exportV2", "exportV3"}) =>
    /\ proc.retryCount <= MAX_RETRIES
    /\ proc.calls <= MAX_RETRIES + 1
    /\ (proc.pc = "exited" /\ proc.retryCount = MAX_RETRIES) =>
         proc.reported /\ proc.status # 0

\* C22: where the newer export, the CSV reader or the input validator ends
\* the process on an error, the error was emitted and the exit status is
\* not zero.
FatalExitNonZero ==
  (proc.program # "exportV2" /\ proc.pc = "exited") => proc.reported /\ proc.status # 0

\* ------------------------------- export: file system errors while writing
\* a write of a page has thrown: the drain holds the error until its await
\* resumes, then the submission of the drain is rejected with it
WriteFailed ==
  \/ drain # NoDrain /\ drain.failed
  \/ \E i \in DOMAIN promises : promises[i].state = "rejected"

\* the export engine has caught the error of a page write
WriteErrorCaught == lastError.source = "write"

\* C23 as stated: from the moment the write of a page throws a file system
\* error, no further page fetch is issued and the export is not invoked again.
FsErrorStopsFetching ==
  [][WriteFailed' => Len(apiLog') <= Len(apiLog) /\ hist'.runs = hist.runs]_vars

\* C23: once the engine has caught the error of a page write (at the await
\* of the oldest submission or of all of them) the run is over: it exits
\* with status 1, issues no fetch, and is not restarted, whatever the
\* retry budget and whatever the error code.
FsErrorNotRetried ==
  /\ [](WriteErrorCaught =>
          /\ pc \in {"threw", "exited"}
          /\ pc = "exited" => exitCode = 1)
  /\ [][WriteErrorCaught =>
          /\ apiLog' = apiLog
          /\ hist'.runs = hist.runs
          /\ retryCount' = retryCount
          /\ attempt' = attempt]_vars

\* a disk-full error of the first page ended the run although a retry of
\* the fetch and ten restarts were left, and the second page was never asked for
FsErrorNotRetriedWitness ==
  /\ pc = "exited"
  /\ exitCode = 1
  /\ lastError = WriteError("ENOSPC")
  /\ maxRetries = 1
  /\ attempt = 0
  /\ retryCount = 0
  /\ hist.runs = 1
  /\ 1 \in DOMAIN pages
  /\ Len(apiLog) = 1

\* ------------------------------------------ export: checkpoint lifecycle
\* the checkpoint file holds an entry of this export
EntryOnDisk == HasEntry(readJson(disk), EXPORTS, indexHash)

InFlightWindow ==
  /\ Len(pendingWrites) <= window
  /\ getQueueSize <= window

\* a window of 1 and an export of two pages: the second page is submitted
\* and is the only submission outstanding and the only page queued
InFlightWindowWitness ==
  /\ window = 1
  /\ 1 \in DOMAIN pages
  /\ pageIndex = 2
  /\ Len(pendingWrites) = 1
  /\ getQueueSize = 1

\* ---------------------------------------- export: completion after drain
\* C28: when the export has completed (stream closed, listener closed,
\* checkpoint cleared) every submission has settled with success, no drain
\* runs, the queue is empty and every page handed over was written; from
\* then on nothing is written to the output.
CompletionAfterDrain ==
  /\ [](pc = "done" =>
          /\ \A i \in DOMAIN promises : promises[i].state = "resolved"
          /\ drain = NoDrain
          /\ ~isWriting
          /\ getQueueSize = 0
          /\ nextExpectedPage = pageIndex
          /\ streamEnded
          /\ ~listenerOpen
          /\ ~EntryOnDisk)
  /\ [][pc = "done" => writes' = writes]_vars

\* an export of two pages with a window of 2 has completed: the submission
\* of the second page was awaited only by the final Promise.all
CompletionAfterDrainWitness ==
  /\ pc = "done"
  /\ window = 2
  /\ Len(pendingWrites) = 1
  /\ nextExpectedPage = 2
  /\ Len(writes) > 1

\* ------------------------------------------ export: output of a resumed run
\* the lines of the output file below its header
DataRows == Tail(Flatten(writes))

\* C29: when a resumed export has completed, the data rows of the output
\* file are as many as the running row count, which includes the rows
\* exported before the interruption.
ResumedOutputComplete ==
  (pc = "done" /\ hist.resumed /\ hist.timeouts = 0) => Len(DataRows) = routeCount

\* ------------------------------------------ write queue: exclusive drain
\* C30: at most one drain of the queue runs at a time: isWriting is set
\* exactly while a drain is between its writes, the only unsettled call of
\* addPage is the one that runs the drain, and while a drain runs every
\* write is made by it. A call of addPage made while a drain runs only
\* inserts its page and returns 0, and a drain that ends without error
\* leaves no page in the queue that is next in order.
ExclusiveDrain ==
  /\ [](/\ isWriting <=> drain # NoDrain
        /\ \A i \in DOMAIN promises :
             promises[i].state = "pending" => drain # NoDrain /\ drain.call = i
        /\ (drain = NoDrain /\ \A i \in DOMAIN promises : promises[i].state = "resolved") =>
             nextExpectedPage \notin DOMAIN queue)
  /\ [][(drain # NoDrain /\ writes' # writes) => drain' # NoDrain /\ drain'.call = drain.call]_vars
  /\ [][(isWriting /\ Len(added') = Len(added) + 1) =>
          /\ promises' = Append(promises, [state |-> "resolved", value |-> 0])
          /\ queue' = Put(queue, added'[Len(added')], pages[added'[Len(added')]])
          /\ writes' = writes
          /\ drain' = drain
          /\ isWriting'
          /\ nextExpectedPage' = nextExpectedPage]_vars

\* page 1 was added while the drain of page 0 ran: its call returned 0, and
\* the first call returned the rows of both pages
ExclusiveDrainWitness ==
  /\ added = <<0, 1>>
  /\ Len(pages[1]) > 0
  /\ drain = NoDrain
  /\ promises = <<[state |-> "resolved", value |-> Len(pages[0]) + Len(pages[1])],
                  [state |-> "resolved", value |-> 0]>>
  /\ getQueueSize = 0

\* ------------------------------------------ write queue: returned counts
\* the counts the resolved addPage calls have returned
ReturnedCounts ==
  [i \in DOMAIN promises |-> IF promises[i].state = "resolved" THEN promises[i].value ELSE 0]

BackToBack ==
  /\ added = <<2, 0, 1>>
  /\ nextExpectedPage = 0
  /\ drain # NoDrain
  /\ ~drain.failed

RowsUpTo(k) ==
  UNION {{RowsOf(pages[p])[i] : i \in 1..Len(pages[p])} : p \in {q \in DOMAIN pages : q <= k}}

\* C33: when a write of page k has failed, page k is still in the map under
\* the expected index k and nothing of a page above k has been written; the
\* step in which the drain takes the error rejects the call that ran the
\* drain with it, leaves the expected index and the map as they are and
\* writes nothing; from then on isWriting is released and a later call drains.
WriteFailureState ==
  /\ []((drain # NoDrain /\ drain.failed) =>
          /\ nextExpectedPage \in DOMAIN queue
          /\ queue[nextExpectedPage] = drain.routes
          /\ getQueueSize > 0
          /\ LET lines == Flatten(writes)
                 low == RowsUpTo(nextExpectedPage)
             IN \A i \in DOMAIN lines : lines[i] \in low)
  /\ [][(drain # NoDrain /\ drain.failed /\ added' = added /\ drain' # drain) =>
          /\ promises' = [promises EXCEPT ![drain.call] =
                            [state |-> "rejected", value |-> 0, error |-> drain.error]]
          /\ nextExpectedPage' = nextExpectedPage
          /\ queue' = queue
          /\ writes' = writes
          /\ drain' = NoDrain
          /\ ~isWriting']_vars
  /\ []((drain = NoDrain /\ ~NoRejection) => ~isWriting)

\* the write of page 0 failed and rejected its call; the call of page 1
\* then drained both pages
WriteFailureStateWitness ==
  /\ added = <<0, 1>>
  /\ drain = NoDrain
  /\ Len(pages[0]) > 0 /\ Len(pages[1]) > 0
  /\ promises[1] = [state |-> "rejected", value |-> 0, error |-> WriteError("ENOSPC")]
  /\ promises[2] = [state |-> "resolved", value |-> Len(pages[0]) + Len(pages[1])]
  /\ getQueueSize = 0

\* ------------------------------------------------ write queue: gap holding
\* the pages submitted while a page of lower index has not been submitted
HeldPages == {p \in AddedSet : \E q \in DOMAIN pages : q < p /\ q \notin AddedSet}

\* C34: a page submitted while a lower index is still missing is in the
\* map, is counted by getQueueSize(), and none of its rows has been written.
GapHolding ==
  /\ HeldPages \subseteq DOMAIN queue
  /\ getQueueSize >= Cardinality(HeldPages)
  /\ \A p \in HeldPages : nextExpectedPage < p
  /\ LET lines == Flatten(writes)
     IN \A p \in HeldPages : \A i \in DOMAIN lines : \A j \in DOMAIN pages[p] :
          lines[i] # RowsOf(pages[p])[j]

\* pages 2 and 1 were submitted and page 0 is missing: both are held and
\* nothing was written
GapHoldingWitness ==
  /\ added = <<2, 1>>
  /\ Len(pages[1]) > 0 /\ Len(pages[2]) > 0
  /\ getQueueSize = 2
  /\ nextExpectedPage = 0
  /\ writes = <<>>
  /\ drain = NoDrain
  /\ ~isWriting

\* ------------------------------------- write queue: the write-batch size
\* the rows of the pages 0..m-1, one after the other: what a batch size of
\* 1 writes, a row per write call
RowsBelow(m) == RowsOfPagesFrom([p \in {q \in DOMAIN pages : q < m} |-> pages[p]], 0)

\* C35: as long as no write has failed, the lines written to the sink, the
\* write calls laid end to end, are the rows of the pages written so far in
\* page order, whatever the batch size; a write call holds between one row
\* and batchSize rows.
BatchSizeIndependence ==
  NoWriteFailure =>
    /\ Flatten(writes) = RowsBelow(IF drain # NoDrain THEN nextExpectedPage + 1 ELSE nextExpectedPage)
    /\ \A w \in DOMAIN writes : Len(writes[w]) >= 1 /\ Len(writes[w]) <= batchSize

\* with a batch size of 2 two pages of two rows were written by two write
\* calls, and the four lines are the rows in order
BatchSizeIndependenceWitness ==
  /\ batchSize = 2
  /\ AllSettled /\ NoRejection
  /\ DOMAIN pages = {0, 1}
  /\ Len(pages[0]) = 2 /\ Len(pages[1]) = 2
  /\ Len(writes) = 2
  /\ Flatten(writes) = AllRows

\* ------------------------------------- export: restart and fresh resume
\* C36: while the wrapper waits to retry, the checkpoint file holds the
\* cursor and the row count of the failed invocation; and every invocation,
\* the first of a process or one re-invoked by the wrapper, starts in a
\* state that the checkpoint file and the answer to the resume prompt
\* determine: cursor and row count as saved (or none and 0 when resuming is
\* declined), page index 0, an output holding the header only, an empty
\* queue, one fetch issued.
RestartEqualsFresh ==
  /\ [](pc = "retryWait" =>
          /\ EntryOnDisk
          /\ ExportEntry(readJson(disk)).data = ProgressData(next, routeCount))
  /\ [][hist'.runs = hist.runs + 1 =>
          LET m == readJson(disk)
              has == HasEntry(m, EXPORTS, indexHash)
              data == IF has THEN ExportEntry(m).data ELSE EmptyObj
              savedNext == Get(data, "next")
              savedCount == IF "routeCount" \in DOMAIN data THEN data.routeCount ELSE 0
              StartsAt(cursor, count) ==
                /\ next' = cursor
                /\ routeCount' = count
                /\ pageIndex' = 0
                /\ writes' = <<<<HeaderLine>>>>
                /\ apiLog' = <<[cursor |-> cursor, state |-> "inflight", next |-> Undefined]>>
                /\ queue' = EmptyObj
                /\ nextExpectedPage' = 0
                /\ pendingWrites' = <<>>
          IN \/ StartsAt(savedNext, savedCount)
             \/ has /\ StartsAt(Undefined, 0)]_vars

\* the fetch of the second page failed with a retryable error, the wrapper
\* invoked the export again and it resumed at the checkpoint: the state is
\* the one in which a fresh process resumes from that file
RestartEqualsFreshWitness ==
  /\ retryCount = 1
  /\ hist.runs = 2
  /\ hist.resumed
  /\ pc = "fetching"
  /\ pageIndex = 0
  /\ writes = <<<<HeaderLine>>>>
  /\ apiLog = <<[cursor |-> Token(1), state |-> "inflight", next |-> Undefined]>>
  /\ routeCount = Len(pages[0])
  /\ routeCount > 0

\* ------------------------------------------- retryWithBackoff: applied wait
\* C37: after a retryable error that is not a rate limit, the time slept
\* before the next attempt, jitter included, is at most maxDelay.
AppliedBackoffCap ==
  \A i \in DOMAIN retry.sleeps :
    classifyError(retry.sleeps[i].error).type # "rate_limit" =>
      retry.sleeps[i].slept <= retry.retryConfig.maxDelay

\* ------------------------------------------ export: checkpoint consistency
\* the rows of the pages that precede the page a cursor points to
RowsBeforeCursor(cursor) ==
  SumSeq([j \in 1..PageOfCursor(cursor) |-> Len(pages[j - 1])])

RowsOfExport == SumSeq([j \in 1..Cardinality(DOMAIN pages) |-> Len(pages[j - 1])])

\* C38: the checkpoint in the file always holds a row count equal to the
\* rows of the pages before its cursor, which are the pages a run resumed
\* from it does not fetch again (or, saved after the last page with no
\* cursor left, the rows of all pages).
CheckpointConsistent ==
  EntryOnDisk =>
    LET data == ExportEntry(readJson(disk)).data
        cursor == Get(data, "next")
    IN \/ data.routeCount = RowsBeforeCursor(cursor)
       \/ cursor = Undefined /\ data.routeCount = RowsOfExport

\* ------------------------------------------ write queue: no lost wake-up
\* the lowest page index that has not been submitted
FirstMissing == CHOOSE k \in 0..Len(added) : k \notin AddedSet /\ \A j \in 0..(k - 1) : j \in AddedSet

\* C39: whenever isWriting is clear and no addPage call has been rejected,
\* the page of the expected index is not in the queue; and the step in
\* which a drain ends without error leaves the expected index at the lowest
\* index not yet submitted, with every page below it, those submitted
\* while the drain ran included, written to the sink and out of the queue.
NoLostWakeup ==
  /\ []((~isWriting /\ NoRejection) =>
          /\ nextExpectedPage \notin DOMAIN queue
          /\ nextExpectedPage = FirstMissing)
  /\ [][(isWriting /\ ~isWriting' /\ promises'[drain.call].state = "resolved") =>
          /\ nextExpectedPage' = FirstMissing'
          /\ \A k \in DOMAIN queue' : k > nextExpectedPage'
          /\ NoRejection => Flatten(writes') = RowsBelow(nextExpectedPage')]_vars

\* pages 2 and 1 were submitted while the drain of page 0 ran: page 1 made
\* both drainable, and the drain of the first call wrote all three pages
\* before it released the flag
NoLostWakeupWitness ==
  /\ added = <<0, 2, 1>>
  /\ ~isWriting
  /\ drain = NoDrain
  /\ getQueueSize = 0
  /\ nextExpectedPage = 3
  /\ Len(pages[1]) > 0
  /\ Len(pages[2]) > 0
  /\ promises = <<[state |-> "resolved", value |-> Len(pages[0]) + Len(pages[1]) + Len(pages[2])],
                  [state |-> "resolved", value |-> 0],
                  [state |-> "resolved", value |-> 0]>>

\* ------------------------------------------------ export: drain termination
\* An export in which every fetch and every write succeeds and no signal
\* arrives: the engine of SpecE with no fault to spend. The event loop runs
\* every continuation whose awaited promise has settled, and a fetch or a
\* write that succeeds settles its promise, hence the weak fairness of each
\* step.
InitFaultFree ==
  /\ pages \in PageSets(MaxPages)
  /\ batchSize \in 1..MaxBatchSize
  /\ faults = 0
  /\ writes = <<>>
  /\ QueueInit
  /\ disk \in ExportFiles
  /\ metainfo = EmptyObj
  /\ lastOp = NoOp
  /\ pc = "idle"
  /\ next = Undefined
  /\ routeCount = 0
  /\ pageIndex = 0
  /\ pendingWrites = <<>>
  /\ fetched = Undefined
  /\ listenerOpen = FALSE
  /\ streamEnded = FALSE
  /\ window \in 1..MaxWindow
  /\ maxRetries \in 0..MaxRetriesConfig
  /\ attempt = 0
  /\ retryCount = 0
  /\ apiLog = <<>>
  /\ lastError = NoError
  /\ exitCode = 0
  /\ hist = [runs |-> 0, timeouts |-> 0]
  /\ ImportIdle
  /\ UtilsIdle

NextFaultFree == Start \/ FetchOk \/ AwaitOldest \/ AwaitAllDone \/ Resume

SpecFaultFree ==
  /\ InitFaultFree
  /\ [][NextFaultFree]_vars
  /\ WF_vars(Start)
  /\ WF_vars(FetchOk)
  /\ WF_vars(AwaitOldest)
  /\ WF_vars(AwaitAllDone)
  /\ WF_vars(Resume)

\* C40: in an export without faults the pages are submitted to the queue
\* with the indices 0, 1, 2, ... in this order, once each; when the fetch
\* loop has ended and every submission has resolved the queue is empty, so
\* the poll loop does not sleep; and the export reaches completion.
DrainTermination ==
  /\ [](\A i \in DOMAIN added : added[i] = i - 1)
  /\ []((pc = "awaitAll" /\ PendingStates \subseteq {"resolved"}) => getQueueSize = 0)
  /\ [](pc # "polling")
  /\ <>(pc = "done")

\* two pages were fetched with a window of 1 and submitted as pages 0 and
\* 1; both calls resolved, the queue is empty and the export is complete
DrainTerminationWitness ==
  /\ pc = "done"
  /\ window = 1
  /\ added = <<0, 1>>
  /\ Len(pages[0]) > 0
  /\ Len(pages[1]) > 0
  /\ \A i \in DOMAIN promises : promises[i].state = "resolved"
  /\ getQueueSize = 0
  /\ nextExpectedPage = 2
  /\ ~EntryOnDisk

====
